---- MODULE Spec2Model ----
(***************************************************************************)
(* Model of the per-user credential configuration (app/models.py,          *)
(* MCPConfiguration), the gateway process manager and the per-user client  *)
(* (app/services/mcp_client.py, MCPServerManager and MCPClientManager).    *)
(*                                                                         *)
(* Text is modelled as a sequence of fragments: "" is <<>>, concatenation  *)
(* is \o, and "x starts with p" looks at the first fragment.  Plaintext    *)
(* tokens are one-fragment texts.  A Fernet token is the tuple             *)
(* <<"fernet", key, plaintext>>; it decrypts only under the key it was     *)
(* made with.  Keys are tuples as well: <<>> is "ENCRYPTION_KEY not set".  *)
(***************************************************************************)
EXTENDS Integers, Sequences, FiniteSets, TLC

VARIABLES
    envKey,      \* os.environ['ENCRYPTION_KEY'] (<<>> when absent)
    generated,   \* number of keys Fernet.generate_key() has produced so far
    cfg,         \* per user: the MCPConfiguration object the user's request holds
    written,     \* history: per user and token field, the plaintext last passed to its setter
    setter,      \* per user: a token setter that has generated a key and not yet stored it
    result,      \* outcome of the last configuration-level call (setter, getter, constructor)
    children,    \* every process the manager has spawned, with its present state
    server_process, \* MCPServerManager._server_process: index into children, 0 for None
    gatewayUp,   \* a gateway not spawned by this manager is answering on the port
    now,         \* int(time.time() * 1000)
    pc,          \* per user: where the user's current operation stands
    call,        \* per user: the operation in progress (name, entry point, arguments)
    polls,       \* per user: i, the number of failed polls after the spawn
    ensured,     \* per user: what ensure_server_running returned to the current operation
    hdrs,        \* per user: the auth_headers argument of the current call_tool
    post,        \* per user: the HTTP POST the current operation has sent
    reply,       \* per user: what the transport delivered for that POST
    outcome,     \* per user: what the finished operation handed to its caller
    done,        \* per user: number of operations finished
    rows,        \* the committed rows of table mcp_configurations, in id order
    req,         \* per web request in flight: its handler's position and local state
    session,     \* db.session of a context that stays open: loaded objects with unflushed changes
    loops        \* every event loop a *_sync method has created, in order of creation

vars == <<envKey, generated, cfg, written, setter, result, children, server_process,
          gatewayUp, now, pc, call, polls, ensured, hdrs, post, reply, outcome, done,
          rows, req, session, loops>>

cfgVars == <<envKey, generated, cfg, written, setter, result>>
gwVars  == <<children, server_process, gatewayUp, now>>
callVars == <<pc, call, polls, ensured, hdrs, post, reply, outcome, done>>
opVars  == <<callVars, loops>>
dbVars  == <<rows, req, session>>

Users == {"u1", "u2"}

Requests == {"r1", "r2"}

----------------------------------------------------------------------------
(* Text helpers                                                            *)

NoText == <<>>

Truthy(text) == text # <<>>

StartsWith(text, prefixes) == Len(text) > 0 /\ text[1] \in prefixes

HttpSchemes == {"http://", "https://"}

RECURSIVE Join(_)
Join(msgs) ==
    IF Len(msgs) = 0 THEN <<>>
    ELSE IF Len(msgs) = 1 THEN msgs[1]
    ELSE msgs[1] \o <<", ">> \o Join(Tail(msgs))

Contains(text, part) ==
    \E i \in 0..(Len(text) - Len(part)) :
        \A j \in 1..Len(part) : text[i + j] = part[j]

----------------------------------------------------------------------------
(* Encryption: cryptography.fernet as used by MCPConfiguration             *)

NoKey == <<>>
BadKey == <<"not-a-fernet-key">>
PinnedKey == <<"env", 1>>
OldKey == <<"env", 2>>

GeneratedKey(n) == <<"gen", n>>

ValidKey(key) == Len(key) = 2

FernetEncrypt(key, token) == <<"fernet", key, token>>

FernetDecryptable(key, stored) ==
    Len(stored) = 3 /\ stored[1] = "fernet" /\ stored[2] = key

\* MCPConfiguration.encryption_key: the key in the environment, or a fresh
\* one that is also written to the environment.
encryption_key(env, gen) ==
    IF ~Truthy(env)
    THEN [key |-> GeneratedKey(gen + 1), env |-> GeneratedKey(gen + 1), gen |-> gen + 1]
    ELSE [key |-> env, env |-> env, gen |-> gen]

TokenFields == {"jira_personal_token", "confluence_personal_token", "personal_access_token"}

\* A setter that returns early on an empty token without clearing the column.
set_token_keeps_old(c, field, token, env, gen) ==
    IF ~Truthy(token)
    THEN [cfg |-> c, env |-> env, gen |-> gen, exc |-> "none"]
    ELSE LET k == encryption_key(env, gen) IN
         IF ~ValidKey(k.key)
         THEN [cfg |-> c, env |-> k.env, gen |-> k.gen, exc |-> "ValueError"]
         ELSE [cfg |-> [c EXCEPT ![field] = FernetEncrypt(k.key, token)],
               env |-> k.env, gen |-> k.gen, exc |-> "none"]

\* set_<field>_token: the stored value, or the exception the setter lets out.
set_token(c, field, token, env, gen) ==
    IF ~Truthy(token)
    THEN [cfg |-> [c EXCEPT ![field] = NoText], env |-> env, gen |-> gen, exc |-> "none"]
    ELSE LET k == encryption_key(env, gen) IN
         IF ~ValidKey(k.key)
         THEN [cfg |-> c, env |-> k.env, gen |-> k.gen, exc |-> "ValueError"]
         ELSE [cfg |-> [c EXCEPT ![field] = FernetEncrypt(k.key, token)],
               env |-> k.env, gen |-> k.gen, exc |-> "none"]

\* A getter that builds the Fernet object before entering the try block.
get_token_unguarded(c, field, env, gen) ==
    IF ~Truthy(c[field])
    THEN [ret |-> NoText, cfg |-> c, env |-> env, gen |-> gen, exc |-> "none"]
    ELSE LET k == encryption_key(env, gen) IN
         IF ~ValidKey(k.key)
         THEN [ret |-> NoText, cfg |-> c, env |-> k.env, gen |-> k.gen, exc |-> "ValueError"]
         ELSE IF FernetDecryptable(k.key, c[field])
         THEN [ret |-> c[field][3], cfg |-> c, env |-> k.env, gen |-> k.gen, exc |-> "none"]
         ELSE [ret |-> NoText, cfg |-> c, env |-> k.env, gen |-> k.gen, exc |-> "none"]

\* get_<field>_token: every failure inside the try block yields ''.
get_token(c, field, env, gen) ==
    IF ~Truthy(c[field])
    THEN [ret |-> NoText, cfg |-> c, env |-> env, gen |-> gen, exc |-> "none"]
    ELSE LET k == encryption_key(env, gen) IN
         IF ValidKey(k.key) /\ FernetDecryptable(k.key, c[field])
         THEN [ret |-> c[field][3], cfg |-> c, env |-> k.env, gen |-> k.gen, exc |-> "none"]
         ELSE [ret |-> NoText, cfg |-> c, env |-> k.env, gen |-> k.gen, exc |-> "none"]

\* The value a getter returns, for use where the environment already holds a key.
TokenOf(c, field, env) == get_token(c, field, env, 0).ret

----------------------------------------------------------------------------
(* MCPConfiguration.validate                                               *)

ErrNoService == <<"At least one service (Jira or Confluence) must be configured">>
ErrJiraUrl == <<"Jira URL must start with http:// or https://">>
ErrJiraToken == <<"Jira Personal Access Token is required when Jira URL is provided">>
ErrConfluenceUrl == <<"Confluence URL must start with http:// or https://">>
ErrConfluenceToken == <<"Confluence Personal Access Token is required when Confluence URL is provided">>
ErrServerUrl == <<"Server URL must start with http:// or https://">>

When(cond, msg) == IF cond THEN <<msg>> ELSE <<>>

\* A validation that does not count the legacy pair as a configured service.
validate_without_legacy(c) ==
    LET jira_configured == Truthy(c.jira_url) /\ Truthy(c.jira_personal_token)
        confluence_configured == Truthy(c.confluence_url) /\ Truthy(c.confluence_personal_token)
    IN  When(~(jira_configured \/ confluence_configured), ErrNoService)
        \o When(Truthy(c.jira_url) /\ ~StartsWith(c.jira_url, HttpSchemes), ErrJiraUrl)
        \o When(Truthy(c.jira_url) /\ ~Truthy(c.jira_personal_token), ErrJiraToken)
        \o When(Truthy(c.confluence_url) /\ ~StartsWith(c.confluence_url, HttpSchemes), ErrConfluenceUrl)
        \o When(Truthy(c.confluence_url) /\ ~Truthy(c.confluence_personal_token), ErrConfluenceToken)
        \o When(Truthy(c.server_url) /\ ~StartsWith(c.server_url, HttpSchemes), ErrServerUrl)

\* MCPConfiguration.validate: the error list, in the order the code appends.
validate(c) ==
    LET jira_configured == Truthy(c.jira_url) /\ Truthy(c.jira_personal_token)
        confluence_configured == Truthy(c.confluence_url) /\ Truthy(c.confluence_personal_token)
        legacy_configured == Truthy(c.server_url) /\ Truthy(c.personal_access_token)
    IN  When(~(jira_configured \/ confluence_configured \/ legacy_configured), ErrNoService)
        \o When(Truthy(c.jira_url) /\ ~StartsWith(c.jira_url, HttpSchemes), ErrJiraUrl)
        \o When(Truthy(c.jira_url) /\ ~Truthy(c.jira_personal_token), ErrJiraToken)
        \o When(Truthy(c.confluence_url) /\ ~StartsWith(c.confluence_url, HttpSchemes), ErrConfluenceUrl)
        \o When(Truthy(c.confluence_url) /\ ~Truthy(c.confluence_personal_token), ErrConfluenceToken)
        \o When(Truthy(c.server_url) /\ ~StartsWith(c.server_url, HttpSchemes), ErrServerUrl)

\* A constructor that rejects only a configuration without any service.
ClientInitOnlyNoService(c) ==
    LET errors == validate(c) IN
    IF Len(errors) > 0 /\ errors[1] = ErrNoService
    THEN [exc |-> "MCPValidationError",
          msg |-> <<"Invalid MCP configuration: ">> \o Join(errors)]
    ELSE [exc |-> "none", msg |-> NoText]

\* MCPClientManager.__init__: the exception it raises, if any.
ClientInit(c) ==
    LET errors == validate(c) IN
    IF Len(errors) > 0
    THEN [exc |-> "MCPValidationError",
          msg |-> <<"Invalid MCP configuration: ">> \o Join(errors)]
    ELSE [exc |-> "none", msg |-> NoText]

----------------------------------------------------------------------------
(* JSON values as the client reads them                                    *)

JNull == [t |-> "null", v |-> <<>>]
JStr(text) == [t |-> "str", v |-> text]
JNum(n) == [t |-> "num", v |-> <<n>>]
JList(items) == [t |-> "list", v |-> items]
JMap(pairs) == [t |-> "map", v |-> pairs]

\* Python truthiness of a JSON value.
JTruthy(j) ==
    IF j.t = "null" THEN FALSE
    ELSE IF j.t = "num" THEN j.v[1] # 0
    ELSE Len(j.v) > 0

Has(m, key) == \E i \in 1..Len(m.v) : m.v[i][1] = key

\* dict.get(key, default)
Get(m, key, default) ==
    IF Has(m, key) THEN m.v[CHOOSE i \in 1..Len(m.v) : m.v[i][1] = key][2] ELSE default

Digits == <<"0", "1", "2", "3", "4", "5", "6", "7", "8", "9">>

\* str(x) of a JSON value
Str(j) ==
    IF j.t = "str" THEN j
    ELSE IF j.t = "num" THEN JStr(<<Digits[j.v[1] + 1]>>)
    ELSE IF j.t = "null" THEN JStr(<<"None">>)
    ELSE JStr(<<"repr of ", j.t>>)

\* type(x) as it is printed in a message
TypeName(j) ==
    IF j.t = "map" THEN "<class 'dict'>"
    ELSE IF j.t = "list" THEN "<class 'list'>"
    ELSE IF j.t = "str" THEN "<class 'str'>"
    ELSE IF j.t = "num" THEN "<class 'int'>"
    ELSE "<class 'NoneType'>"

\* a.get(k1) or a.get(k2) or ... or default
RECURSIVE FirstTruthy(_, _, _)
FirstTruthy(m, keys, default) ==
    IF Len(keys) = 0 THEN default
    ELSE IF JTruthy(Get(m, keys[1], JNull)) THEN Get(m, keys[1], JNull)
    ELSE FirstTruthy(m, Tail(keys), default)

----------------------------------------------------------------------------
(* What an operation hands to its caller                                   *)

NoOutcome == [kind |-> "none", exc |-> "none", shape |-> "none", success |-> FALSE,
              msg |-> NoText, value |-> <<>>]

Return(shape, success, msg, value) ==
    [kind |-> "return", exc |-> "none", shape |-> shape, success |-> success,
     msg |-> msg, value |-> value]

Raise(exc, msg) ==
    [kind |-> "raise", exc |-> exc, shape |-> "none", success |-> FALSE,
     msg |-> msg, value |-> <<>>]

----------------------------------------------------------------------------
(* MCPClientManager._get_auth_headers and the request of call_tool         *)

BoolText(b) == IF b THEN <<"true">> ELSE <<"false">>

BaseHeaders == {<<"Content-Type", <<"application/json">>>>,
                <<"User-Agent", <<"JIA-MCP-Client/1.0">>>>}

\* Headers that add the service headers as soon as the URL is set.
get_auth_headers_on_url(c, service_type, env) ==
    IF service_type = "jira"
    THEN IF Truthy(c.jira_url)
         THEN BaseHeaders \cup {<<"X-Jira-URL", c.jira_url>>,
                                <<"X-Jira-Personal-Token", TokenOf(c, "jira_personal_token", env)>>,
                                <<"X-Jira-SSL-Verify", BoolText(c.jira_ssl_verify)>>}
         ELSE BaseHeaders
    ELSE IF service_type = "confluence"
    THEN IF Truthy(c.confluence_url)
         THEN BaseHeaders \cup {<<"X-Confluence-URL", c.confluence_url>>,
                                <<"X-Confluence-Personal-Token", TokenOf(c, "confluence_personal_token", env)>>,
                                <<"X-Confluence-SSL-Verify", BoolText(c.confluence_ssl_verify)>>}
         ELSE BaseHeaders
    ELSE BaseHeaders

\* MCPClientManager._get_auth_headers
get_auth_headers(c, service_type, env) ==
    IF service_type = "jira"
    THEN IF Truthy(c.jira_url) /\ Truthy(TokenOf(c, "jira_personal_token", env))
         THEN BaseHeaders \cup {<<"X-Jira-URL", c.jira_url>>,
                                <<"X-Jira-Personal-Token", TokenOf(c, "jira_personal_token", env)>>,
                                <<"X-Jira-SSL-Verify", BoolText(c.jira_ssl_verify)>>}
         ELSE BaseHeaders
    ELSE IF service_type = "confluence"
    THEN IF Truthy(c.confluence_url) /\ Truthy(TokenOf(c, "confluence_personal_token", env))
         THEN BaseHeaders \cup {<<"X-Confluence-URL", c.confluence_url>>,
                                <<"X-Confluence-Personal-Token", TokenOf(c, "confluence_personal_token", env)>>,
                                <<"X-Confluence-SSL-Verify", BoolText(c.confluence_ssl_verify)>>}
         ELSE BaseHeaders
    ELSE BaseHeaders

\* The JSON-RPC body built by call_tool; the id is the clock in milliseconds.
mcp_request(tool_name, arguments, request_id) ==
    [jsonrpc |-> "2.0", id |-> request_id, method |-> "tools/call",
     params |-> [name |-> tool_name, arguments |-> arguments]]

NoCall == [op |-> "none", sync |-> FALSE, arg |-> JNull]

NoReply == [kind |-> "none", status |-> 0, status_text |-> "", body |-> "none",
            text |-> NoText, payload |-> JNull]

NoPost == [sent |-> FALSE, headers |-> {}, body |-> mcp_request("none", JMap(<<>>), 0)]

----------------------------------------------------------------------------
(* Values the configuration columns take in the model                      *)

TokA == <<"tokA">>
TokB == <<"tokB">>
Garbage == <<"gAAAA-corrupted">>

JiraUrl(u) == <<"https://", "jira", u>>
ConfluenceUrl(u) == <<"https://", "wiki", u>>
LegacyUrl(u) == <<"http://", "legacy", u>>
BadUrl == <<"not-a-url">>

\* MCPConfiguration columns (unset columns read as '', which is what every
\* condition of the code that reads them tests for).
Config(ju, jt, js, cu, ct, cs, su, st) ==
    [jira_url |-> ju, jira_personal_token |-> jt, jira_ssl_verify |-> js,
     confluence_url |-> cu, confluence_personal_token |-> ct, confluence_ssl_verify |-> cs,
     server_url |-> su, personal_access_token |-> st,
     is_active |-> TRUE, last_tested |-> 0]

EmptyConfig == Config(NoText, NoText, TRUE, NoText, NoText, TRUE, NoText, NoText)

StoredTokens == {NoText, FernetEncrypt(PinnedKey, TokA), FernetEncrypt(OldKey, TokA), Garbage}

NoWrite == <<"never set">>

NoSetter == [pc |-> "idle", field |-> "none", token |-> NoText, key |-> NoKey]

IdleSetters == setter = [u \in Users |-> NoSetter]

Owner == "u1"

NoResult == [op |-> "none", field |-> "none", ret |-> NoText, exc |-> "none", msg |-> NoText]

IdleGateway ==
    /\ children = <<>>
    /\ server_process = 0
    /\ gatewayUp = FALSE
    /\ now = 0

\* A request slot that holds no request.
NoRequest ==
    [kind |-> "none", pc |-> "idle", user |-> "none", op |-> "none", service_type |-> "none",
     row |-> 0, loaded |-> EmptyConfig, c |-> EmptyConfig, fresh |-> {},
     sent |-> FALSE, headers |-> {}, out |-> NoOutcome, n |-> 0]

\* An empty table and no request in flight.
IdleDb ==
    /\ rows = <<>>
    /\ req = [r \in Requests |-> NoRequest]
    /\ session = {}

IdleOps ==
    /\ loops = <<>>
    /\ pc = [u \in Users |-> "idle"]
    /\ call = [u \in Users |-> NoCall]
    /\ polls = [u \in Users |-> 0]
    /\ ensured = [u \in Users |-> "none"]
    /\ hdrs = [u \in Users |-> {}]
    /\ post = [u \in Users |-> NoPost]
    /\ reply = [u \in Users |-> NoReply]
    /\ outcome = [u \in Users |-> NoOutcome]
    /\ done = [u \in Users |-> 0]

----------------------------------------------------------------------------
(* Token setters and getters on one configuration object                   *)

InitToken ==
    /\ envKey \in {NoKey, PinnedKey, BadKey}
    /\ generated = 0
    /\ \E jt \in StoredTokens, ct \in StoredTokens, st \in StoredTokens :
          cfg = [u \in Users |->
                    IF u = Owner
                    THEN Config(JiraUrl(u), jt, TRUE, ConfluenceUrl(u), ct, TRUE, LegacyUrl(u), st)
                    ELSE EmptyConfig]
    /\ written = [u \in Users |-> [f \in TokenFields |-> NoWrite]]
    /\ result = NoResult
    /\ IdleGateway
    /\ IdleOps
    /\ IdleSetters
    /\ IdleDb

SetToken(u, field, token) ==
    LET r == set_token(cfg[u], field, token, envKey, generated) IN
    /\ cfg' = [cfg EXCEPT ![u] = r.cfg]
    /\ envKey' = r.env
    /\ generated' = r.gen
    /\ written' = IF r.exc = "none" THEN [written EXCEPT ![u][field] = token] ELSE written
    /\ result' = [op |-> "set", field |-> field, ret |-> NoText, exc |-> r.exc, msg |-> NoText]
    /\ UNCHANGED <<setter, gwVars, opVars, dbVars>>

GetToken(u, field) ==
    LET r == get_token(cfg[u], field, envKey, generated) IN
    /\ cfg' = [cfg EXCEPT ![u] = r.cfg]
    /\ envKey' = r.env
    /\ generated' = r.gen
    /\ result' = [op |-> "get", field |-> field, ret |-> r.ret, exc |-> r.exc, msg |-> NoText]
    /\ UNCHANGED <<written, setter, gwVars, opVars, dbVars>>

NextToken ==
    \/ \E f \in TokenFields, t \in {NoText, TokA, TokB} : SetToken(Owner, f, t)
    \/ \E f \in TokenFields : GetToken(Owner, f)

SpecToken == InitToken /\ [][NextToken]_vars

----------------------------------------------------------------------------
(* Client construction over every configuration                            *)

Urls(good) == {NoText, BadUrl, good}

InitValidate ==
    /\ envKey = PinnedKey
    /\ generated = 0
    /\ \E ju \in Urls(JiraUrl(Owner)), cu \in Urls(ConfluenceUrl(Owner)), su \in Urls(LegacyUrl(Owner)),
          jt \in StoredTokens, ct \in StoredTokens, st \in StoredTokens,
          js \in BOOLEAN, cs \in BOOLEAN :
          cfg = [u \in Users |->
                    IF u = Owner THEN Config(ju, jt, js, cu, ct, cs, su, st)
                    ELSE EmptyConfig]
    /\ written = [u \in Users |-> [f \in TokenFields |-> NoWrite]]
    /\ result = NoResult
    /\ IdleGateway
    /\ IdleOps
    /\ IdleSetters
    /\ IdleDb

Construct(u) ==
    LET r == ClientInit(cfg[u]) IN
    /\ result' = [op |-> "construct", field |-> "none", ret |-> NoText, exc |-> r.exc, msg |-> r.msg]
    /\ UNCHANGED <<envKey, generated, cfg, written, setter, gwVars, opVars, dbVars>>

\* config.validate(): msg holds the error list joined with ', '.
Validate(u) ==
    /\ result' = [op |-> "validate", field |-> "none", ret |-> NoText, exc |-> "none",
                  msg |-> Join(validate(cfg[u]))]
    /\ UNCHANGED <<envKey, generated, cfg, written, setter, gwVars, opVars, dbVars>>

ServiceTypes == {"jira", "confluence", "legacy"}

\* client._get_auth_headers(service_type) on a client that could be constructed.
AuthHeaders(u, service_type) ==
    /\ ClientInit(cfg[u]).exc = "none"
    /\ call' = [call EXCEPT ![u] = [op |-> "_get_auth_headers", sync |-> FALSE,
                                    arg |-> JStr(<<service_type>>)]]
    /\ hdrs' = [hdrs EXCEPT ![u] = get_auth_headers(cfg[u], service_type, envKey)]
    /\ UNCHANGED <<cfgVars, gwVars, pc, polls, ensured, post, reply, outcome, done, loops, dbVars>>

NextValidate ==
    \/ Construct(Owner)
    \/ Validate(Owner)
    \/ \E s \in ServiceTypes : AuthHeaders(Owner, s)

SpecValidate == InitValidate /\ [][NextValidate]_vars

----------------------------------------------------------------------------
(* Properties of the configuration object                                  *)

Services == {"jira", "confluence", "legacy"}

UrlOf(c, s) ==
    IF s = "jira" THEN c.jira_url
    ELSE IF s = "confluence" THEN c.confluence_url ELSE c.server_url

StoredOf(c, s) ==
    IF s = "jira" THEN c.jira_personal_token
    ELSE IF s = "confluence" THEN c.confluence_personal_token ELSE c.personal_access_token

ZeroConfigured(c) == \A s \in Services : UrlOf(c, s) = NoText \/ StoredOf(c, s) = NoText

C9_TokenRoundTrip ==
    \A f \in TokenFields :
        LET w == written[Owner][f]
            got == get_token(cfg[Owner], f, envKey, generated)
        IN  w # NoWrite =>
                /\ got.exc = "none"
                /\ got.ret = w
                /\ (w = NoText => cfg[Owner][f] = NoText)
                /\ (w # NoText => cfg[Owner][f] # w)

C9_Witness ==
    /\ result.op = "get"
    /\ result.ret = TokB
    /\ written[Owner][result.field] = TokB
    /\ \E f \in TokenFields : written[Owner][f] = NoText

Undecryptable(stored, key) ==
    Truthy(stored) /\ ~(ValidKey(key) /\ FernetDecryptable(key, stored))

\* C10: a getter never raises and never changes the configuration; when the
\* stored ciphertext is non-empty and cannot be decrypted under the key in
\* force (corrupted, made with another key, or the key itself is unusable) it
\* returns ''.
C10_GetNeverRaises ==
    [][\A f \in TokenFields :
          GetToken(Owner, f) =>
              /\ result'.exc = "none"
              /\ cfg' = cfg
              /\ (Undecryptable(cfg[Owner][f], envKey') => result'.ret = NoText)]_vars

C10_Witness ==
    /\ result.op = "get"
    /\ result.exc = "none"
    /\ result.ret = NoText
    /\ Undecryptable(cfg[Owner][result.field], envKey)
    /\ cfg[Owner][result.field] = FernetEncrypt(OldKey, TokA)

\* At least one service has both its url and its token column set.
OneConfigured(c) == \E s \in Services : Truthy(UrlOf(c, s)) /\ Truthy(StoredOf(c, s))

\* Every url that is set carries an http:// or https:// scheme.
SchemesValid(c) == \A s \in Services : Truthy(UrlOf(c, s)) => StartsWith(UrlOf(c, s), HttpSchemes)

\* C11 as claimed: validate() returns no error whenever one service is
\* fully set and every set url has a valid scheme.
C11_CompleteConfigNoErrors ==
    result.op = "validate" =>
        ((OneConfigured(cfg[Owner]) /\ SchemesValid(cfg[Owner])) => result.msg = NoText)

\* C11, amended: validate() returns no error whenever one service is fully
\* set, every set url has a valid scheme, and neither the Jira nor the
\* Confluence url is set without its token.
C11_CompleteConfigNoErrorsAmended ==
    result.op = "validate" =>
        ((/\ OneConfigured(cfg[Owner])
          /\ SchemesValid(cfg[Owner])
          /\ \A s \in {"jira", "confluence"} :
                Truthy(UrlOf(cfg[Owner], s)) => Truthy(StoredOf(cfg[Owner], s)))
            => result.msg = NoText)

C11_Witness ==
    /\ result.op = "validate"
    /\ result.msg = NoText
    /\ cfg[Owner].jira_url = NoText
    /\ cfg[Owner].confluence_url = NoText
    /\ cfg[Owner].server_url = LegacyUrl(Owner)
    /\ cfg[Owner].personal_access_token = FernetEncrypt(PinnedKey, TokA)

\* C12 as claimed: for each of Jira, Confluence and legacy, a url set with
\* an empty token gives a non-empty error list, which for Jira and for
\* Confluence contains that service's token-required message.
C12_UrlWithoutTokenRejected ==
    result.op = "validate" =>
        \A s \in Services :
            (Truthy(UrlOf(cfg[Owner], s)) /\ ~Truthy(StoredOf(cfg[Owner], s))) =>
                /\ result.msg # NoText
                /\ (s = "jira" => Contains(result.msg, ErrJiraToken))
                /\ (s = "confluence" => Contains(result.msg, ErrConfluenceToken))

\* C13 as claimed: a client can be constructed over a configuration whose
\* Jira url is set without a token or lacks an http:// or https:// scheme.
C13_ConstructibleWithoutJiraToken ==
    (/\ result.op = "construct"
     /\ Truthy(cfg[Owner].jira_url)
     /\ (~Truthy(cfg[Owner].jira_personal_token)
            \/ ~StartsWith(cfg[Owner].jira_url, HttpSchemes)))
        => result.exc = "none"

\* The plaintext a stored token decrypts to under the key in force, '' when
\* there is none.
Plain(stored) ==
    IF Truthy(stored) /\ ~Undecryptable(stored, envKey) THEN stored[3] ELSE NoText

ServiceHeaderNames(s) ==
    IF s = "jira" THEN {"X-Jira-URL", "X-Jira-Personal-Token", "X-Jira-SSL-Verify"}
    ELSE IF s = "confluence"
    THEN {"X-Confluence-URL", "X-Confluence-Personal-Token", "X-Confluence-SSL-Verify"}
    ELSE {}

HeaderNames(h) == {x[1] : x \in h}

\* The value a header set gives to a name (the set of them: one at most).
HeaderValues(h, name) == {x[2] : x \in {y \in h : y[1] = name}}

----------------------------------------------------------------------------
(* The gateway as the manager sees it                                      *)

\* Bounds of the exploration.
MaxOps == 1
MaxChildren == 2
MaxClock == 1

\* max_retries of ensure_server_running.
max_retries == 10

Alive(ch) == {i \in 1..Len(ch) : ch[i] \in {"starting", "serving"}}

\* What GET /health answers with: 200 iff something serves on the port.
GatewayHealthy == gatewayUp \/ \E i \in 1..Len(children) : children[i] = "serving"

\* MCPServerManager._is_server_healthy: status 200, and False on any exception.
is_server_healthy == GatewayHealthy

\* A manager that starts a server whatever the probe said.
AfterProbeAlwaysStart(healthy) == "start"

\* ensure_server_running, first probe: return True or go on to start a server.
AfterProbe(healthy) == IF healthy THEN "return_true" ELSE "start"

\* A spawned process binds the port and starts answering /health.
ChildServes(i) ==
    /\ i \in 1..Len(children)
    /\ children[i] = "starting"
    /\ ~GatewayHealthy
    /\ children' = [children EXCEPT ![i] = "serving"]
    /\ UNCHANGED <<server_process, gatewayUp, now, cfgVars, opVars, dbVars>>

\* A spawned process exits on its own (crash, port already taken).
ChildExits(i) ==
    /\ i \in 1..Len(children)
    /\ children[i] \in {"starting", "serving"}
    /\ children' = [children EXCEPT ![i] = "exited"]
    /\ UNCHANGED <<server_process, gatewayUp, now, cfgVars, opVars, dbVars>>

\* A gateway started outside the application goes away.
ExternalStop ==
    /\ gatewayUp
    /\ gatewayUp' = FALSE
    /\ UNCHANGED <<children, server_process, now, cfgVars, opVars, dbVars>>

\* MCPServerManager.__del__ at the end of the process: terminate the tracked child.
ManagerDel(active) ==
    /\ \A u \in active : pc[u] = "idle" /\ done[u] = MaxOps
    /\ server_process # 0
    /\ children[server_process] \in {"starting", "serving"}
    /\ children' = [children EXCEPT ![server_process] = "terminated"]
    /\ UNCHANGED <<server_process, gatewayUp, now, cfgVars, opVars, dbVars>>

----------------------------------------------------------------------------
(* MCPServerManager.call_tool: from the gateway's answer to its result     *)

MsgStartFailed == <<"Failed to start MCP server">>
MsgTimedOut == <<"MCP request timed out">>

\* call_tool when ensure_server_running returned False
call_tool_unreachable == Raise("MCPConnectionError", MsgStartFailed)

\* call_tool after the POST; resp is what the transport delivered
call_tool_response(resp) ==
    IF resp.kind = "timeout" THEN Raise("MCPTimeoutError", MsgTimedOut)
    ELSE IF resp.kind = "refused"
    THEN Raise("MCPConnectionError", <<"MCP call failed: ">> \o resp.text)
    ELSE IF resp.status # 200
    THEN Raise("MCPConnectionError", <<"MCP HTTP error: ", "HTTP ", resp.status_text, ": ">> \o resp.text)
    ELSE IF resp.body = "invalid"
    THEN Raise("MCPConnectionError", <<"MCP call failed: ">> \o resp.text)
    ELSE IF resp.body = "error"
    THEN Raise("MCPConnectionError", <<"MCP error: ">> \o resp.text)
    ELSE IF resp.body = "result"
    THEN Return("json", TRUE, NoText, resp.payload)
    ELSE Return("json", TRUE, NoText, JMap(<<>>))

----------------------------------------------------------------------------
(* MCPClientManager operations                                             *)

ResultOps == {"test_jira_connection", "test_confluence_connection", "create_ticket"}
RaisingOps == {"get_boards", "get_sprints", "search_tickets", "get_ticket_history"}
GatewayOps == {"test_jira_connection", "test_confluence_connection", "get_boards", "get_sprints"}

ShapeOf(op) ==
    IF op \in {"test_jira_connection", "test_confluence_connection"} THEN "ConnectionResult"
    ELSE IF op = "create_ticket" THEN "TicketResult"
    ELSE IF op = "get_ticket_history" THEN "TicketHistory"
    ELSE IF op = "ensure_server_running" THEN "bool"
    ELSE "list"

ServiceOf(op) == IF op = "test_confluence_connection" THEN "confluence" ELSE "jira"

ToolOf(op) ==
    IF op = "test_jira_connection" THEN "jira_get_user_profile"
    ELSE IF op = "test_confluence_connection" THEN "confluence_search_user"
    ELSE IF op = "get_boards" THEN "jira_get_agile_boards"
    ELSE "jira_get_sprints_from_board"

ArgumentsOf(k) ==
    IF k.op = "get_sprints" THEN JMap(<<<<"board_id", k.arg>>>>) ELSE JMap(<<>>)

\* not s or not s.strip()
Blank(text) == \A i \in 1..Len(text) : text[i] = " "

JiraReady(c, env) == Truthy(c.jira_url) /\ Truthy(TokenOf(c, "jira_personal_token", env))
ConfluenceReady(c, env) ==
    Truthy(c.confluence_url) /\ Truthy(TokenOf(c, "confluence_personal_token", env))

Failed(shape, msg) == Return(shape, FALSE, msg, <<>>)

MsgJiraRequired == <<"Jira URL and Personal Access Token are required">>
MsgConfluenceRequired == <<"Confluence URL and Personal Access Token are required">>
MsgJiraFormat == <<"Invalid Jira URL format - must start with http:// or https://">>
MsgConfluenceFormat == <<"Invalid Confluence URL format - must start with http:// or https://">>

RequiredFields == <<"summary", "project", "issuetype">>

MissingFields(data) == SelectSeq(RequiredFields, LAMBDA f : ~JTruthy(Get(data, f, JNull)))

\* A ticket creation that reports only the first missing field.
create_ticket_first_missing(c, data, env) ==
    IF ~JiraReady(c, env)
    THEN Failed("TicketResult", <<"Failed to create ticket: ",
                                  "Jira configuration is required for ticket creation">>)
    ELSE IF data.t # "map"
    THEN Failed("TicketResult", <<"Failed to create ticket: ", "object has no attribute 'get'">>)
    ELSE IF Len(MissingFields(data)) > 0
    THEN Failed("TicketResult", <<"Missing required fields: ", MissingFields(data)[1]>>)
    ELSE Return("TicketResult", TRUE, NoText,
                <<Str(Get(data, "project", JNull)).v \o <<"-123">>, <<"12345">>,
                  c.jira_url \o <<"/browse/">> \o Str(Get(data, "project", JNull)).v \o <<"-123">> >>)

\* MCPClientManager.create_ticket
create_ticket(c, data, env) ==
    IF ~JiraReady(c, env)
    THEN Failed("TicketResult", <<"Failed to create ticket: ",
                                  "Jira configuration is required for ticket creation">>)
    ELSE IF data.t # "map"
    THEN Failed("TicketResult", <<"Failed to create ticket: ", "object has no attribute 'get'">>)
    ELSE IF Len(MissingFields(data)) > 0
    THEN Failed("TicketResult", <<"Missing required fields: ">>
                    \o Join([i \in 1..Len(MissingFields(data)) |-> <<MissingFields(data)[i]>>]))
    ELSE Return("TicketResult", TRUE, NoText,
                <<Str(Get(data, "project", JNull)).v \o <<"-123">>, <<"12345">>,
                  c.jira_url \o <<"/browse/">> \o Str(Get(data, "project", JNull)).v \o <<"-123">> >>)

get_ticket_history(c, ticket_key, env) ==
    IF Blank(ticket_key)
    THEN Raise("MCPConnectionError", <<"Failed to fetch ticket history: ", "Ticket key is required">>)
    ELSE IF ~JiraReady(c, env)
    THEN Raise("MCPConnectionError", <<"Failed to fetch ticket history: ",
                                       "Jira configuration is required for ticket history">>)
    ELSE Return("TicketHistory", TRUE, NoText, <<ticket_key>>)

search_tickets(c, jql, env) ==
    IF Blank(jql)
    THEN Raise("MCPConnectionError", <<"Failed to search tickets: ", "JQL query is required">>)
    ELSE IF ~JiraReady(c, env)
    THEN Raise("MCPConnectionError", <<"Failed to search tickets: ",
                                       "Jira configuration is required for ticket search">>)
    ELSE Return("list", TRUE, NoText, <<<<"DEV-123">>, <<"DEV-124">>>>)

\* The part of a gateway operation that runs before call_tool: go says
\* whether the tool is called, out is the outcome when it is not.
Before(c, k, env) ==
    IF k.op = "test_jira_connection"
    THEN IF ~JiraReady(c, env) THEN [go |-> FALSE, out |-> Failed("ConnectionResult", MsgJiraRequired)]
         ELSE IF ~StartsWith(c.jira_url, HttpSchemes)
         THEN [go |-> FALSE, out |-> Failed("ConnectionResult", MsgJiraFormat)]
         ELSE [go |-> TRUE, out |-> NoOutcome]
    ELSE IF k.op = "test_confluence_connection"
    THEN IF ~ConfluenceReady(c, env)
         THEN [go |-> FALSE, out |-> Failed("ConnectionResult", MsgConfluenceRequired)]
         ELSE IF ~StartsWith(c.confluence_url, HttpSchemes)
         THEN [go |-> FALSE, out |-> Failed("ConnectionResult", MsgConfluenceFormat)]
         ELSE [go |-> TRUE, out |-> NoOutcome]
    ELSE IF k.op = "get_boards"
    THEN IF ~JiraReady(c, env)
         THEN [go |-> FALSE, out |-> Raise("MCPConnectionError", <<"Failed to fetch boards: ",
                                        "Jira configuration is required for board operations">>)]
         ELSE [go |-> TRUE, out |-> NoOutcome]
    ELSE IF k.op = "get_sprints"
    THEN IF ~JiraReady(c, env)
         THEN [go |-> FALSE, out |-> Raise("MCPConnectionError", <<"Failed to fetch sprints: ",
                                        "Jira configuration is required for sprint operations">>)]
         ELSE [go |-> TRUE, out |-> NoOutcome]
    ELSE IF k.op = "create_ticket" THEN [go |-> FALSE, out |-> create_ticket(c, k.arg, env)]
    ELSE IF k.op = "get_ticket_history"
    THEN [go |-> FALSE, out |-> get_ticket_history(c, k.arg.v, env)]
    ELSE IF k.op = "search_tickets" THEN [go |-> FALSE, out |-> search_tickets(c, k.arg.v, env)]
    ELSE [go |-> TRUE, out |-> NoOutcome]

----------------------------------------------------------------------------
(* Mapping the tool result                                                 *)

\* The first wrapper key present in a mapping selects the data; anything
\* else is taken as it is.
RECURSIVE Unwrap(_, _)
Unwrap(response, keys) ==
    IF response.t # "map" \/ Len(keys) = 0 THEN response
    ELSE IF Has(response, keys[1]) THEN Get(response, keys[1], JNull)
    ELSE Unwrap(response, Tail(keys))

EmptyStr == JStr(NoText)

NeedsProject(b) ==
    /\ ~JTruthy(Get(Get(b, "location", JMap(<<>>)), "projectKey", EmptyStr))
    /\ Has(b, "project")

\* No .get() on something that is not a mapping.
BoardOk(b) ==
    /\ b.t = "map"
    /\ Get(b, "location", JMap(<<>>)).t = "map"
    /\ NeedsProject(b) => Get(b, "project", JNull).t = "map"

Board(b, c) ==
    LET location == Get(b, "location", JMap(<<>>))
        project_info == Get(b, "project", JNull)
        board_id == Str(Get(b, "id", EmptyStr))
    IN  [id |-> board_id,
         name |-> Get(b, "name", JStr(<<"Unknown Board">>)),
         type |-> Get(b, "type", JStr(<<"unknown">>)),
         project_key |-> IF NeedsProject(b) THEN Get(project_info, "key", EmptyStr)
                         ELSE Get(location, "projectKey", EmptyStr),
         project_name |-> IF NeedsProject(b) THEN Get(project_info, "name", EmptyStr)
                          ELSE Get(location, "projectName", EmptyStr),
         self_url |-> Get(b, "self", JStr(c.jira_url \o <<"/rest/agile/1.0/board/">> \o board_id.v))]

Sprint(sp, board_id) ==
    [id |-> Str(Get(sp, "id", EmptyStr)),
     name |-> Get(sp, "name", JStr(<<"Unknown Sprint">>)),
     state |-> Get(sp, "state", JStr(<<"unknown">>)),
     start_date |-> Get(sp, "startDate", JNull),
     end_date |-> Get(sp, "endDate", JNull),
     complete_date |-> Get(sp, "completeDate", JNull),
     board_id |-> board_id]

MsgNoGet == <<"object has no attribute 'get'">>

\* A board listing that looks for 'boards' before 'values'.
get_boards_result_boards_first(c, response) ==
    LET boards_data == Unwrap(response, <<"boards", "values", "content">>) IN
    IF boards_data.t = "list"
    THEN IF \A i \in 1..Len(boards_data.v) : BoardOk(boards_data.v[i])
         THEN Return("list", TRUE, NoText,
                     [i \in 1..Len(boards_data.v) |-> Board(boards_data.v[i], c)])
         ELSE Raise("MCPConnectionError", <<"Failed to fetch boards: ">> \o MsgNoGet)
    ELSE Return("list", TRUE, NoText, <<>>)

\* MCPClientManager.get_boards, from the result of the tool
get_boards_result(c, response) ==
    LET boards_data == Unwrap(response, <<"values", "boards", "content">>) IN
    IF boards_data.t = "list"
    THEN IF \A i \in 1..Len(boards_data.v) : BoardOk(boards_data.v[i])
         THEN Return("list", TRUE, NoText,
                     [i \in 1..Len(boards_data.v) |-> Board(boards_data.v[i], c)])
         ELSE Raise("MCPConnectionError", <<"Failed to fetch boards: ">> \o MsgNoGet)
    ELSE Return("list", TRUE, NoText, <<>>)

get_sprints_result(board_id, response) ==
    LET sprints_data == Unwrap(response, <<"values", "sprints", "content">>) IN
    IF sprints_data.t = "list"
    THEN IF \A i \in 1..Len(sprints_data.v) : sprints_data.v[i].t = "map"
         THEN Return("list", TRUE, NoText,
                     [i \in 1..Len(sprints_data.v) |-> Sprint(sprints_data.v[i], board_id)])
         ELSE Raise("MCPConnectionError", <<"Failed to fetch sprints: ">> \o MsgNoGet)
    ELSE Return("list", TRUE, NoText, <<>>)

UnknownUser == JStr(<<"Unknown User">>)

connection_result(service, response) ==
    IF response.t = "map"
    THEN Return("ConnectionResult", TRUE, NoText,
                [user_name |-> FirstTruthy(response, <<"displayName", "name", "username">>, UnknownUser),
                 user_id |-> FirstTruthy(response, <<"accountId", "key", "id">>, EmptyStr),
                 email |-> IF service = "jira"
                           THEN FirstTruthy(response, <<"emailAddress", "email">>, EmptyStr)
                           ELSE FirstTruthy(response, <<"email", "emailAddress">>, EmptyStr)])
    ELSE Failed("ConnectionResult",
                <<"Unexpected response format from MCP server: ", TypeName(response)>>)

\* A connection test that handles MCPConnectionError only and lets the rest out.
test_connection_after_catches_less(service, r) ==
    IF r.kind = "raise"
    THEN IF r.exc = "MCPConnectionError"
         THEN Failed("ConnectionResult", <<"MCP Connection Error: ">> \o r.msg)
         ELSE r
    ELSE connection_result(service, r.value)

\* test_<service>_connection, from what call_tool returned or raised.
test_connection_after(service, r) ==
    IF r.kind = "raise"
    THEN IF r.exc = "MCPConnectionError"
         THEN Failed("ConnectionResult", <<"MCP Connection Error: ">> \o r.msg)
         ELSE IF r.exc = "MCPTimeoutError"
         THEN Failed("ConnectionResult", <<"Connection timeout: ">> \o r.msg)
         ELSE Failed("ConnectionResult", <<"Unexpected error: ">> \o r.msg)
    ELSE connection_result(service, r.value)

\* A board listing that re-raises what call_tool raised.
get_boards_after_reraises(c, r) ==
    IF r.kind = "raise" THEN r ELSE get_boards_result(c, r.value)

\* get_boards, from what call_tool returned or raised.
get_boards_after(c, r) ==
    IF r.kind = "raise"
    THEN Raise("MCPConnectionError", <<"Failed to fetch boards: ">> \o r.msg)
    ELSE get_boards_result(c, r.value)

\* get_sprints, from what call_tool returned or raised.
get_sprints_after(board_id, r) ==
    IF r.kind = "raise"
    THEN Raise("MCPConnectionError", <<"Failed to fetch sprints: ">> \o r.msg)
    ELSE get_sprints_result(board_id, r.value)

\* What the caller of call_tool makes of its result; call_tool called on its
\* own hands the result or the exception to its caller as it is.
After(c, k, r) ==
    IF k.op = "call_tool" THEN r
    ELSE IF k.op \in {"test_jira_connection", "test_confluence_connection"}
    THEN test_connection_after(ServiceOf(k.op), r)
    ELSE IF k.op = "get_boards" THEN get_boards_after(c, r)
    ELSE get_sprints_after(k.arg, r)

SyncPrefix(op) ==
    IF op \in {"test_jira_connection", "test_confluence_connection"} THEN <<"Connection test failed: ">>
    ELSE IF op = "create_ticket" THEN <<"Failed to create ticket: ">>
    ELSE IF op = "get_boards" THEN <<"Failed to get boards: ">>
    ELSE IF op = "get_sprints" THEN <<"Failed to get sprints: ">>
    ELSE IF op = "get_ticket_history" THEN <<"Failed to get ticket history: ">>
    ELSE <<"Failed to search tickets: ">>

\* The *_sync wrapper around the outcome of the coroutine.
SyncWrap(k, out) ==
    IF ~k.sync \/ out.kind # "raise" THEN out
    ELSE IF k.op \in ResultOps THEN Failed(ShapeOf(k.op), SyncPrefix(k.op) \o out.msg)
    ELSE Raise("MCPConnectionError", SyncPrefix(k.op) \o out.msg)

----------------------------------------------------------------------------
(* One operation of one user, step by step                                 *)

Call(op, sync, arg) == [op |-> op, sync |-> sync, arg |-> arg]

\* loop = asyncio.new_event_loop(); loop.run_until_complete(<one coroutine>)
\* in the thread of the caller by.
LoopStarted(ls, by) == Append(ls, [by |-> by, state |-> "open", ran |-> 1])

\* A wrapper that closes its loop only when the coroutine returned.
sync_finally_unless_raised(out) == IF out.kind = "raise" THEN "open" ELSE "closed"

\* finally: loop.close(), whatever the coroutine returned or raised.
sync_finally(out) == "closed"

\* The *_sync method of the caller by ends: its loop variable is the loop
\* it created.
LoopEnded(ls, by, out) ==
    [i \in 1..Len(ls) |->
        IF ls[i].by = by /\ ls[i].state = "open"
        THEN [ls[i] EXCEPT !.state = sync_finally(out)]
        ELSE ls[i]]

Finish(u, out) ==
    /\ pc' = [pc EXCEPT ![u] = "idle"]
    /\ outcome' = [outcome EXCEPT ![u] = out]
    /\ done' = [done EXCEPT ![u] = @ + 1]
    /\ polls' = [polls EXCEPT ![u] = 0]
    /\ hdrs' = [hdrs EXCEPT ![u] = {}]

\* The headers call_tool puts on the POST, with those of every call in flight.
PostHeadersShared(u) == UNION {hdrs[v] : v \in Users}

\* The headers call_tool puts on the POST: its auth_headers argument.
PostHeaders(u) == hdrs[u]

\* call_tool goes on to the POST whatever ensure_server_running returned.
AfterEnsureAlwaysPosts(ok) == "post"

\* call_tool after ensure_server_running: POST, or raise MCPConnectionError.
AfterEnsure(ok) == IF ok THEN "post" ELSE "raise"

SendPost(u) ==
    /\ post' = [post EXCEPT ![u] = [sent |-> TRUE, headers |-> PostHeaders(u),
                   body |-> mcp_request(ToolOf(call[u].op), ArgumentsOf(call[u]), now)]]
    /\ pc' = [pc EXCEPT ![u] = "posted"]
    /\ UNCHANGED <<outcome, done, polls, hdrs>>

\* ensure_server_running has returned ok to the operation of u.
Ensured(u, ok) ==
    /\ ensured' = [ensured EXCEPT ![u] = IF ok THEN "true" ELSE "false"]
    /\ IF call[u].op = "ensure_server_running"
       THEN Finish(u, Return("bool", ok, NoText, <<>>)) /\ UNCHANGED <<post, loops>>
       ELSE IF AfterEnsure(ok) = "post"
       THEN SendPost(u) /\ UNCHANGED loops
       ELSE /\ Finish(u, SyncWrap(call[u], After(cfg[u], call[u], call_tool_unreachable)))
            /\ loops' = LoopEnded(loops, u, After(cfg[u], call[u], call_tool_unreachable))
            /\ UNCHANGED post

\* The operation starts: the client exists, the local checks run, and a
\* gateway operation builds its headers and enters ensure_server_running.
Begin(u, k) ==
    /\ pc[u] = "idle"
    /\ done[u] < MaxOps
    /\ k.op # "ensure_server_running" => ClientInit(cfg[u]).exc = "none"
    /\ call' = [call EXCEPT ![u] = k]
    /\ post' = [post EXCEPT ![u] = NoPost]
    /\ reply' = [reply EXCEPT ![u] = NoReply]
    /\ ensured' = [ensured EXCEPT ![u] = "none"]
    /\ IF Before(cfg[u], k, envKey).go
       THEN /\ pc' = [pc EXCEPT ![u] = "probe"]
            /\ hdrs' = [hdrs EXCEPT ![u] =
                          IF k.op = "ensure_server_running" THEN {}
                          ELSE get_auth_headers(cfg[u], ServiceOf(k.op), envKey)]
            /\ outcome' = [outcome EXCEPT ![u] = NoOutcome]
            /\ loops' = IF k.sync THEN LoopStarted(loops, u) ELSE loops
            /\ UNCHANGED <<polls, done>>
       ELSE /\ Finish(u, SyncWrap(k, Before(cfg[u], k, envKey).out))
            /\ loops' = IF k.sync
                        THEN LoopEnded(LoopStarted(loops, u), u, Before(cfg[u], k, envKey).out)
                        ELSE loops
    /\ UNCHANGED <<cfgVars, gwVars, dbVars>>

\* The answer to the first GET /health reaches the caller.
Probe(u) ==
    /\ pc[u] = "probe"
    /\ IF AfterProbe(is_server_healthy) = "return_true"
       THEN Ensured(u, TRUE)
       ELSE /\ pc' = [pc EXCEPT ![u] = "start"]
            /\ UNCHANGED <<ensured, post, outcome, done, polls, hdrs, loops>>
    /\ UNCHANGED <<call, reply, cfgVars, gwVars, dbVars>>

\* subprocess.Popen: a new child that becomes the tracked process, or an
\* exception, which makes ensure_server_running return False.
Start(u, spawned) ==
    /\ pc[u] = "start"
    /\ IF spawned
       THEN /\ Len(children) < MaxChildren
            /\ children' = Append(children, "starting")
            /\ server_process' = Len(children) + 1
            /\ pc' = [pc EXCEPT ![u] = "sleep"]
            /\ polls' = [polls EXCEPT ![u] = 0]
            /\ UNCHANGED <<ensured, post, outcome, done, hdrs, loops>>
       ELSE /\ Ensured(u, FALSE)
            /\ UNCHANGED <<children, server_process>>
    /\ UNCHANGED <<call, reply, cfgVars, gatewayUp, now, dbVars>>

\* A wait loop that goes round once more than max_retries.
AfterPollOneMore(healthy, polled) ==
    IF healthy THEN "return_true"
    ELSE IF polled = max_retries + 1 THEN "return_false"
    ELSE "again"

\* The wait loop after its probe number polled: for i in range(max_retries).
AfterPoll(healthy, polled) ==
    IF healthy THEN "return_true"
    ELSE IF polled = max_retries THEN "return_false"
    ELSE "again"

\* One round of the wait loop: sleep a second, probe again.
Poll(u) ==
    /\ pc[u] = "sleep"
    /\ IF AfterPoll(is_server_healthy, polls[u] + 1) = "return_true"
       THEN Ensured(u, TRUE)
       ELSE IF AfterPoll(is_server_healthy, polls[u] + 1) = "return_false"
       THEN Ensured(u, FALSE)
       ELSE /\ polls' = [polls EXCEPT ![u] = @ + 1]
            /\ UNCHANGED <<pc, ensured, post, outcome, done, hdrs, loops>>
    /\ UNCHANGED <<call, reply, cfgVars, gwVars, dbVars>>

\* The POST completes: a response, a timeout or a transport error.
Respond(u, resp) ==
    /\ pc[u] = "posted"
    /\ resp.kind = "http" => GatewayHealthy
    /\ reply' = [reply EXCEPT ![u] = resp]
    /\ Finish(u, SyncWrap(call[u], After(cfg[u], call[u], call_tool_response(resp))))
    /\ loops' = LoopEnded(loops, u, After(cfg[u], call[u], call_tool_response(resp)))
    /\ UNCHANGED <<call, ensured, post, cfgVars, gwVars, dbVars>>

\* The clock moves on.
Tick ==
    /\ now < MaxClock
    /\ now' = now + 1
    /\ UNCHANGED <<children, server_process, gatewayUp, cfgVars, opVars, dbVars>>

----------------------------------------------------------------------------
(* Inputs                                                                  *)

TokenOfUser(u) == IF u = "u1" THEN TokA ELSE TokB

\* Both services configured, tokens readable.
BothConfig(u) ==
    Config(JiraUrl(u), FernetEncrypt(PinnedKey, TokenOfUser(u)), TRUE,
           ConfluenceUrl(u), FernetEncrypt(PinnedKey, TokenOfUser(u)), FALSE, NoText, NoText)

\* The Jira token was stored under another key; Confluence is fine.
StaleJiraConfig(u) ==
    Config(JiraUrl(u), FernetEncrypt(OldKey, TokenOfUser(u)), TRUE,
           ConfluenceUrl(u), FernetEncrypt(PinnedKey, TokenOfUser(u)), TRUE, NoText, NoText)

\* Only the legacy pair is set.
LegacyConfig(u) ==
    Config(NoText, NoText, TRUE, NoText, NoText, TRUE,
           LegacyUrl(u), FernetEncrypt(PinnedKey, TokenOfUser(u)))

\* Only Jira is set.
JiraOnlyConfig(u) ==
    Config(JiraUrl(u), FernetEncrypt(PinnedKey, TokenOfUser(u)), FALSE,
           NoText, NoText, TRUE, NoText, NoText)

Profile == JMap(<<<<"displayName", JStr(<<"Ann">>)>>, <<"key", JStr(<<"ann">>)>>,
                  <<"emailAddress", JStr(<<"ann@example.com">>)>>>>)

OneBoard == JMap(<<<<"id", JNum(7)>>, <<"name", JStr(<<"Team">>)>>,
                   <<"location", JMap(<<<<"projectKey", JStr(<<"DEV">>)>>>>)>>>>)

Http(status, status_text, body, text, payload) ==
    [kind |-> "http", status |-> status, status_text |-> status_text, body |-> body,
     text |-> text, payload |-> payload]

Timeout == [kind |-> "timeout", status |-> 0, status_text |-> "", body |-> "none",
            text |-> NoText, payload |-> JNull]

Refused == [kind |-> "refused", status |-> 0, status_text |-> "", body |-> "none",
            text |-> <<"All connection attempts failed">>, payload |-> JNull]

ServerText == <<"Internal Server Error">>
RpcText == <<"Unauthorized: bad token">>

\* What the transport can deliver for a POST.
BasicResponses ==
    << Http(200, "200", "result", NoText, Profile),
       Http(200, "200", "error", RpcText, JNull),
       Timeout >>

Responses ==
    BasicResponses \o
    << Http(200, "200", "result", NoText, JList(<<OneBoard>>)),
       Http(200, "200", "result", NoText, JMap(<<<<"values", JList(<<>>)>>>>)),
       Http(200, "200", "result", NoText, JStr(<<"ok">>)),
       Http(200, "200", "result", NoText, JList(<<JStr(<<"x">>)>>)),
       Http(200, "200", "neither", NoText, JNull),
       Http(200, "200", "invalid", <<"Expecting value: line 1 column 1 (char 0)">>, JNull),
       Http(500, "500", "result", ServerText, JNull),
       Refused >>

GatewayCalls ==
    << Call("ensure_server_running", FALSE, JNull),
       Call("test_jira_connection", FALSE, JNull),
       Call("test_confluence_connection", TRUE, JNull),
       Call("get_boards", TRUE, JNull),
       Call("get_sprints", FALSE, JStr(<<"7">>)) >>

----------------------------------------------------------------------------
(* Two users calling the gateway through the shared manager                *)

InitCall ==
    /\ envKey = PinnedKey
    /\ generated = 0
    /\ cfg = [u \in Users |-> BothConfig(u)]
    /\ written = [u \in Users |-> [f \in TokenFields |-> NoWrite]]
    /\ result = NoResult
    /\ children = <<>>
    /\ server_process = 0
    /\ gatewayUp \in BOOLEAN
    /\ now = 0
    /\ IdleOps
    /\ IdleSetters
    /\ IdleDb

NextCall ==
    \/ \E u \in Users : \E i \in 1..Len(GatewayCalls) : Begin(u, GatewayCalls[i])
    \/ \E u \in Users : Probe(u)
    \/ \E u \in Users : \E spawned \in BOOLEAN : Start(u, spawned)
    \/ \E u \in Users : Poll(u)
    \/ \E u \in Users : \E i \in 1..Len(BasicResponses) : Respond(u, BasicResponses[i])
    \/ \E i \in 1..MaxChildren : ChildServes(i)
    \/ \E i \in 1..MaxChildren : ChildExits(i)
    \/ ExternalStop
    \/ ManagerDel(Users)

SpecCall == InitCall /\ [][NextCall]_vars

----------------------------------------------------------------------------
(* Properties of the shared manager                                        *)

\* URLs and tokens of a user's configuration.
Credentials(u) == {JiraUrl(u), ConfluenceUrl(u), LegacyUrl(u), TokenOfUser(u)}

OwnHeaders(u, service) ==
    IF service = "jira"
    THEN {<<"X-Jira-URL", JiraUrl(u)>>, <<"X-Jira-Personal-Token", TokenOfUser(u)>>,
          <<"X-Jira-SSL-Verify", BoolText(cfg[u].jira_ssl_verify)>>}
    ELSE {<<"X-Confluence-URL", ConfluenceUrl(u)>>, <<"X-Confluence-Personal-Token", TokenOfUser(u)>>,
          <<"X-Confluence-SSL-Verify", BoolText(cfg[u].confluence_ssl_verify)>>}

BodyValues(body) == {body.params.arguments.v[i][2].v : i \in 1..Len(body.params.arguments.v)}

\* C1: every POST carries, besides the two fixed headers, exactly the URL,
\* decrypted token and SSL flag of the configuration of the user whose call
\* sent it, no URL or token of another user, and no URL or token of anybody
\* in its JSON-RPC body.
C1_HeadersOfIssuer ==
    \A u \in Users :
        post[u].sent =>
            /\ post[u].headers = BaseHeaders \cup OwnHeaders(u, ServiceOf(call[u].op))
            /\ \A h \in post[u].headers : \A v \in Users \ {u} : h[2] \notin Credentials(v)
            /\ \A v \in Users : BodyValues(post[u].body) \cap Credentials(v) = {}
            /\ post[u].body.params.name = ToolOf(call[u].op)
            /\ post[u].body.method = "tools/call"

C1_Witness ==
    /\ pc["u1"] = "posted" /\ pc["u2"] = "posted"
    /\ call["u1"].op = "get_sprints" /\ call["u2"].op = "test_confluence_connection"
    /\ <<"X-Jira-Personal-Token", TokA>> \in post["u1"].headers
    /\ <<"X-Confluence-Personal-Token", TokB>> \in post["u2"].headers

\* C2 as claimed: at most one process spawned by the manager is alive.
C2_AtMostOneChildAlive == Cardinality(Alive(children)) <= 1

\* C3 as claimed: no call spawns a server process while the gateway is healthy.
C3_NoSpawnOnceHealthy ==
    [][Len(children') > Len(children) => ~GatewayHealthy]_vars

\* C4: when the first health probe of a call finds the gateway healthy, the
\* call returns true, spawns nothing and leaves the tracked process as it is.
C4_HealthyProbeNoSpawn ==
    [][\A u \in Users :
          (pc[u] = "probe" /\ GatewayHealthy /\ pc'[u] # "probe") =>
              /\ children' = children
              /\ server_process' = server_process
              /\ ensured'[u] = "true"
              /\ call[u].op = "ensure_server_running" =>
                     outcome'[u] = Return("bool", TRUE, NoText, <<>>)]_vars

C4_Witness ==
    /\ \A u \in Users :
          /\ pc[u] = "idle" /\ done[u] = 1
          /\ call[u].op = "ensure_server_running"
          /\ outcome[u] = Return("bool", TRUE, NoText, <<>>)
    /\ children = <<>>
    /\ server_process = 0

\* C5: an operation whose ensure_server_running returned false has sent no
\* POST and fails with the connection error "Failed to start MCP server":
\* raised by the board and sprint operations, returned as a ConnectionResult
\* with success=false by the connection tests; and ensure_server_running
\* returns false only after the probe has failed every time it was made.
C5_UnreachableFailsWithoutPost ==
    \A u \in Users :
        /\ (pc[u] = "idle" /\ ensured[u] = "false") =>
              /\ ~post[u].sent
              /\ reply[u] = NoReply
              /\ call[u].op = "ensure_server_running" =>
                     outcome[u] = Return("bool", FALSE, NoText, <<>>)
              /\ call[u].op \in {"test_jira_connection", "test_confluence_connection"} =>
                     outcome[u] = Failed("ConnectionResult",
                                         <<"MCP Connection Error: ">> \o MsgStartFailed)
              /\ call[u].op \in {"get_boards", "get_sprints"} =>
                     /\ outcome[u].kind = "raise"
                     /\ outcome[u].exc = "MCPConnectionError"
                     /\ Contains(outcome[u].msg, MsgStartFailed)
        /\ post[u].sent => ensured[u] = "true"
        /\ pc[u] = "sleep" => polls[u] < max_retries

C5_Witness ==
    /\ pc["u1"] = "idle"
    /\ ensured["u1"] = "false"
    /\ call["u1"].op = "test_jira_connection"
    /\ Len(children) > 0
    /\ outcome["u1"].msg = <<"MCP Connection Error: ">> \o MsgStartFailed

----------------------------------------------------------------------------
(* One user running every client operation against every gateway answer    *)

Ticket(summary, project, issuetype) ==
    JMap(<<<<"summary", JStr(summary)>>, <<"project", JStr(project)>>,
           <<"issuetype", JStr(issuetype)>>>>)

TicketDatas ==
    << Ticket(<<"Fix login">>, <<"DEV">>, <<"Bug">>),
       JMap(<<<<"summary", JStr(<<"Fix login">>)>>>>),
       Ticket(NoText, <<"DEV">>, NoText),
       JMap(<<>>),
       JNull >>

Keys == << NoText, <<" ">>, <<"DEV-1">> >>

ClientCalls ==
    << Call("test_jira_connection", FALSE, JNull),
       Call("test_jira_connection", TRUE, JNull),
       Call("test_confluence_connection", FALSE, JNull),
       Call("test_confluence_connection", TRUE, JNull),
       Call("get_boards", FALSE, JNull),
       Call("get_boards", TRUE, JNull),
       Call("get_sprints", FALSE, JStr(<<"7">>)),
       Call("get_sprints", TRUE, JStr(<<"7">>)) >>
    \o [i \in 1..Len(TicketDatas) |-> Call("create_ticket", FALSE, TicketDatas[i])]
    \o [i \in 1..Len(TicketDatas) |-> Call("create_ticket", TRUE, TicketDatas[i])]
    \o [i \in 1..Len(Keys) |-> Call("get_ticket_history", FALSE, JStr(Keys[i]))]
    \o [i \in 1..Len(Keys) |-> Call("get_ticket_history", TRUE, JStr(Keys[i]))]
    \o [i \in 1..Len(Keys) |-> Call("search_tickets", FALSE, JStr(Keys[i]))]
    \o [i \in 1..Len(Keys) |-> Call("search_tickets", TRUE, JStr(Keys[i]))]

OwnerConfigs ==
    <<BothConfig(Owner), StaleJiraConfig(Owner), LegacyConfig(Owner), JiraOnlyConfig(Owner)>>

InitOps ==
    /\ envKey = PinnedKey
    /\ generated = 0
    /\ \E i \in 1..Len(OwnerConfigs) :
          cfg = [u \in Users |-> IF u = Owner THEN OwnerConfigs[i] ELSE EmptyConfig]
    /\ written = [u \in Users |-> [f \in TokenFields |-> NoWrite]]
    /\ result = NoResult
    /\ children = <<>>
    /\ server_process = 0
    /\ gatewayUp \in BOOLEAN
    /\ now = 0
    /\ IdleOps
    /\ IdleSetters
    /\ IdleDb

NextOps ==
    \/ \E i \in 1..Len(ClientCalls) : Begin(Owner, ClientCalls[i])
    \/ Probe(Owner)
    \/ \E spawned \in BOOLEAN : Start(Owner, spawned)
    \/ Poll(Owner)
    \/ \E i \in 1..Len(Responses) : Respond(Owner, Responses[i])
    \/ \E i \in 1..MaxChildren : ChildServes(i)
    \/ \E i \in 1..MaxChildren : ChildExits(i)
    \/ ExternalStop
    \/ ManagerDel({Owner})
    \/ Tick

SpecOps == InitOps /\ [][NextOps]_vars

----------------------------------------------------------------------------
(* Properties of the client operations                                     *)

\* The transport or the gateway reported a failure.
TransportFailure(r) ==
    \/ r.kind \in {"timeout", "refused"}
    \/ r.kind = "http" /\ (r.status # 200 \/ r.body \in {"error", "invalid"})

\* The gateway answered with a result that is not a mapping.
NotAMapping(r) == r.kind = "http" /\ r.body = "result" /\ r.payload.t # "map"

\* The text of the error the gateway's answer amounts to.
ErrorText(r) ==
    IF r.kind = "timeout" THEN MsgTimedOut
    ELSE IF TransportFailure(r) THEN r.text
    ELSE <<TypeName(r.payload)>>

\* The owner's configuration has a URL and a readable token for the service.
OwnerReady(service) ==
    IF service = "jira" THEN cfg[Owner] \in {BothConfig(Owner), JiraOnlyConfig(Owner)}
    ELSE cfg[Owner] \in {BothConfig(Owner), StaleJiraConfig(Owner)}

Finished(u) == pc[u] = "idle" /\ done[u] > 0

\* C7: test_jira_connection, test_confluence_connection, create_ticket and
\* their _sync forms always return a result and never raise; when the
\* gateway is unreachable, answers with an HTTP or JSON-RPC error, times out
\* or answers with something that is not a mapping, and when the
\* configuration lacks the service, the result has success=false and a
\* non-empty error_message that contains the text of the error.
C7_ResultOpsNeverRaise ==
    LET k == call[Owner]
        o == outcome[Owner]
        r == reply[Owner]
    IN  (Finished(Owner) /\ k.op \in ResultOps) =>
            /\ o.kind = "return"
            /\ o.shape = ShapeOf(k.op)
            /\ ~o.success => Truthy(o.msg)
            /\ o.success => o.msg = NoText
            /\ ~OwnerReady(ServiceOf(k.op)) => ~o.success
            /\ ensured[Owner] = "false" => (~o.success /\ Contains(o.msg, MsgStartFailed))
            /\ (r.kind # "none" /\ (TransportFailure(r) \/ NotAMapping(r))) =>
                   (~o.success /\ Contains(o.msg, ErrorText(r)))

C7_Witness ==
    /\ Finished(Owner)
    /\ call[Owner] = Call("test_jira_connection", FALSE, JNull)
    /\ reply[Owner] = Timeout
    /\ outcome[Owner] = Failed("ConnectionResult", <<"Connection timeout: ">> \o MsgTimedOut)

\* C8: get_boards, get_sprints, search_tickets, get_ticket_history and their
\* _sync forms either return their value or raise MCPConnectionError,
\* nothing else; they raise it when the Jira URL or token is missing, the
\* ticket key or the JQL is blank, the gateway is unreachable or the call
\* ends in an HTTP, JSON-RPC or transport error.
C8_RaisingOpsRaiseConnectionError ==
    LET k == call[Owner]
        o == outcome[Owner]
        r == reply[Owner]
    IN  (Finished(Owner) /\ k.op \in RaisingOps) =>
            /\ o.kind \in {"return", "raise"}
            /\ o.kind = "raise" => (o.exc = "MCPConnectionError" /\ Truthy(o.msg))
            /\ o.kind = "return" => (o.shape = ShapeOf(k.op) /\ o.success /\ o.msg = NoText)
            /\ ~OwnerReady("jira") => o.kind = "raise"
            /\ (k.op \in {"get_ticket_history", "search_tickets"} /\ k.arg.v \in {NoText, <<" ">>})
                   => o.kind = "raise"
            /\ ensured[Owner] = "false" => (o.kind = "raise" /\ Contains(o.msg, MsgStartFailed))
            /\ (r.kind # "none" /\ TransportFailure(r)) =>
                   (o.kind = "raise" /\ Contains(o.msg, ErrorText(r)))

C8_Witness ==
    /\ Finished(Owner)
    /\ call[Owner] = Call("get_boards", FALSE, JNull)
    /\ reply[Owner] = Timeout
    /\ outcome[Owner].kind = "raise"
    /\ outcome[Owner].exc = "MCPConnectionError"

\* The required fields a ticket lacks: absent from the mapping or empty.
Lacks(data, f) ==
    \A i \in 1..Len(data.v) : data.v[i][1] = f => data.v[i][2] = JStr(NoText)

\* The message that names the lacking fields in the order summary, project,
\* issuetype.
MsgMissing(data) ==
    LET s == IF Lacks(data, "summary") THEN <<"summary">> ELSE <<>>
        p == IF Lacks(data, "project") THEN <<"project">> ELSE <<>>
        t == IF Lacks(data, "issuetype") THEN <<"issuetype">> ELSE <<>>
        sep1 == IF s # <<>> /\ (p # <<>> \/ t # <<>>) THEN <<", ">> ELSE <<>>
        sep2 == IF p # <<>> /\ t # <<>> THEN <<", ">> ELSE <<>>
    IN  <<"Missing required fields: ">> \o s \o sep1 \o p \o sep2 \o t

Incomplete(data) ==
    data.t = "map" /\ \E f \in {"summary", "project", "issuetype"} : Lacks(data, f)

\* C19 as claimed: over any constructed client, create_ticket with ticket
\* data lacking a required field returns success=false with a message
\* naming exactly the lacking fields, and posts nothing to the gateway.
C19_MissingFieldsNamed ==
    (Finished(Owner) /\ call[Owner].op = "create_ticket" /\ Incomplete(call[Owner].arg)) =>
        /\ outcome[Owner] = Failed("TicketResult", MsgMissing(call[Owner].arg))
        /\ ~post[Owner].sent
        /\ ensured[Owner] = "none"

\* C19, amended: the same, over a client whose configuration has the Jira
\* url and a readable Jira token; over any other constructed client the
\* result is still success=false with nothing posted.
C19_MissingFieldsNamedAmended ==
    (Finished(Owner) /\ call[Owner].op = "create_ticket" /\ Incomplete(call[Owner].arg)) =>
        /\ outcome[Owner].kind = "return"
        /\ outcome[Owner].shape = "TicketResult"
        /\ ~outcome[Owner].success
        /\ OwnerReady("jira") => outcome[Owner] = Failed("TicketResult", MsgMissing(call[Owner].arg))
        /\ ~post[Owner].sent
        /\ ensured[Owner] = "none"

C19_Witness ==
    /\ Finished(Owner)
    /\ call[Owner] = Call("create_ticket", TRUE, Ticket(NoText, <<"DEV">>, NoText))
    /\ OwnerReady("jira")
    /\ outcome[Owner].msg = <<"Missing required fields: ", "summary", ", ", "issuetype">>

----------------------------------------------------------------------------
(* The configuration table and the handlers that save and test a           *)
(* configuration (app/config_mgmt/routes.py, app/config_mgmt/services.py)  *)

MaxRequests == 1

\* str.strip(): the inputs hold whitespace only as an all-blank text.
Strip(text) == IF Blank(text) THEN NoText ELSE text

\* ConfigurationUtilities.sanitize_url
sanitize_url(url) ==
    IF ~Truthy(url) THEN NoText
    ELSE LET stripped == Strip(url)
             schemed == IF StartsWith(stripped, HttpSchemes) THEN stripped
                        ELSE <<"https://">> \o stripped
         IN  IF schemed[Len(schemed)] = "/" THEN SubSeq(schemed, 1, Len(schemed) - 1)
             ELSE schemed

\* MCPConfiguration(user_id=...): every column unset.
NewConfig == EmptyConfig

Row(u, c) == [user_id |-> u, c |-> c]

\* Query.filter_by(user_id=u[, is_active=True]).first(): the index of the
\* first matching row, 0 for None.
FirstRow(table, u, active_only) ==
    LET hits == {i \in 1..Len(table) :
                    table[i].user_id = u /\ (active_only => table[i].c.is_active)}
    IN  IF hits = {} THEN 0 ELSE CHOOSE i \in hits : \A j \in hits : i <= j

\* ConfigurationService.get_user_mcp_config
get_user_mcp_config(table, u) == FirstRow(table, u, TRUE)

\* What the save form posts.  The handler reads the fields of the section
\* named by service_type; a checkbox is 'on' (TRUE) or absent (FALSE).
Form(service_type, jira, confluence, is_active) ==
    [service_type |-> service_type,
     jira_url |-> jira[1], jira_personal_token |-> jira[2], jira_ssl_verify |-> jira[3],
     confluence_url |-> confluence[1], confluence_personal_token |-> confluence[2],
     confluence_ssl_verify |-> confluence[3],
     is_active |-> is_active]

\* The config_data of the handler, with the parts the form does not target
\* taken from ex (has says whether there is such a configuration).
config_data_from(form, has, ex, env) ==
    LET keep_jira == form.service_type \in {"confluence", "global"}
        keep_confluence == form.service_type \in {"jira", "global"}
        keep_active == form.service_type \in {"jira", "confluence"}
    IN  [jira_url |->
             IF ~keep_jira THEN sanitize_url(form.jira_url)
             ELSE IF has THEN ex.jira_url ELSE NoText,
         jira_personal_token |->
             IF ~keep_jira THEN form.jira_personal_token
             ELSE IF has THEN TokenOf(ex, "jira_personal_token", env) ELSE NoText,
         jira_ssl_verify |->
             IF ~keep_jira THEN form.jira_ssl_verify
             ELSE IF has THEN ex.jira_ssl_verify ELSE TRUE,
         confluence_url |->
             IF ~keep_confluence THEN sanitize_url(form.confluence_url)
             ELSE IF has THEN ex.confluence_url ELSE NoText,
         confluence_personal_token |->
             IF ~keep_confluence THEN form.confluence_personal_token
             ELSE IF has THEN TokenOf(ex, "confluence_personal_token", env) ELSE NoText,
         confluence_ssl_verify |->
             IF ~keep_confluence THEN form.confluence_ssl_verify
             ELSE IF has THEN ex.confluence_ssl_verify ELSE TRUE,
         server_url |-> NoText,
         personal_access_token |-> NoText,
         is_active |->
             IF ~keep_active THEN form.is_active
             ELSE IF has THEN ex.is_active ELSE TRUE]

\* routes.save_mcp_config, lines 51-111: existing_config is the user's
\* active row, None when the user has no active row.
config_data(form, table, u, env) ==
    LET idx == get_user_mcp_config(table, u) IN
    config_data_from(form, idx # 0, IF idx = 0 THEN NewConfig ELSE table[idx].c, env)

\* ConfigurationService.save_mcp_config, lines 54-89: the assignments to the
\* configuration object.  exc is what a setter raised, if anything.
save_assign(c, data, env, gen) ==
    LET jt == Strip(data.jira_personal_token)
        ct == Strip(data.confluence_personal_token)
        pat == Strip(data.personal_access_token)
        c1 == [c EXCEPT !.jira_url = Strip(data.jira_url),
                        !.jira_ssl_verify = data.jira_ssl_verify]
        r1 == IF Truthy(jt) THEN set_token(c1, "jira_personal_token", jt, env, gen)
              ELSE [cfg |-> IF data.jira_personal_token = NoText
                            THEN [c1 EXCEPT !.jira_personal_token = NoText] ELSE c1,
                    env |-> env, gen |-> gen, exc |-> "none"]
        c2 == [r1.cfg EXCEPT !.confluence_url = Strip(data.confluence_url),
                             !.confluence_ssl_verify = data.confluence_ssl_verify]
        r2 == IF r1.exc # "none" THEN r1
              ELSE IF Truthy(ct) THEN set_token(c2, "confluence_personal_token", ct, r1.env, r1.gen)
              ELSE [cfg |-> IF data.confluence_personal_token = NoText
                            THEN [c2 EXCEPT !.confluence_personal_token = NoText] ELSE c2,
                    env |-> r1.env, gen |-> r1.gen, exc |-> "none"]
        c3 == [r2.cfg EXCEPT !.server_url = Strip(data.server_url)]
        r3 == IF r2.exc # "none" THEN r2
              ELSE IF Truthy(pat) THEN set_token(c3, "personal_access_token", pat, r2.env, r2.gen)
              ELSE [cfg |-> c3, env |-> r2.env, gen |-> r2.gen, exc |-> "none"]
    IN  IF r3.exc # "none" THEN r3
        ELSE [r3 EXCEPT !.cfg = [r3.cfg EXCEPT !.is_active = data.is_active]]

\* The token columns a save assigns a fresh ciphertext to.
Reencrypted(data) ==
    {f \in TokenFields : Truthy(Strip(data[f]))}

\* db.session.commit() of a loaded object: the UPDATE carries the columns
\* whose value differs from the loaded one.
Flush(stored, loaded, c, fresh) ==
    [f \in DOMAIN stored |-> IF c[f] # loaded[f] \/ f \in fresh THEN c[f] ELSE stored[f]]

\* The handler of POST /config/mcp up to the validation in save_mcp_config:
\* both queries, the assignments and validate().  A configuration with
\* errors ends the request; one without goes on to add() and commit().
SaveBegin(r, u, form) ==
    /\ req[r].pc = "idle"
    /\ req[r].n < MaxRequests
    /\ LET data == config_data(form, rows, u, envKey)
           idx == FirstRow(rows, u, FALSE)
           loaded == IF idx = 0 THEN NewConfig ELSE rows[idx].c
           a == save_assign(loaded, data, envKey, generated)
           errors == validate(a.cfg)
           over == a.exc # "none" \/ Len(errors) > 0
       IN  /\ envKey' = a.env
           /\ generated' = a.gen
           /\ req' = [req EXCEPT ![r] =
                 [kind |-> "save", pc |-> IF over THEN "idle" ELSE "commit", user |-> u,
                  op |-> "save_mcp_config", service_type |-> form.service_type,
                  row |-> idx, loaded |-> loaded, c |-> a.cfg, fresh |-> Reencrypted(data),
                  sent |-> FALSE, headers |-> {},
                  out |-> IF a.exc # "none"
                          THEN Failed("save", <<"Failed to save configuration: ", a.exc>>)
                          ELSE IF Len(errors) > 0 THEN Failed("save", Join(errors))
                          ELSE NoOutcome,
                  n |-> IF over THEN req[r].n + 1 ELSE req[r].n]]
    /\ UNCHANGED <<cfg, written, setter, result, gwVars, opVars, rows, session>>

\* db.session.add(config); db.session.commit(): INSERT for an object that
\* was created by the request, UPDATE for one that was loaded.
SaveCommit(r) ==
    /\ req[r].pc = "commit"
    /\ rows' = IF req[r].row = 0
               THEN Append(rows, Row(req[r].user, req[r].c))
               ELSE [rows EXCEPT ![req[r].row].c =
                        Flush(@, req[r].loaded, req[r].c, req[r].fresh)]
    /\ req' = [req EXCEPT ![r].pc = "idle",
                          ![r].out = Return("save", TRUE, NoText, <<>>),
                          ![r].n = @ + 1]
    /\ UNCHANGED <<cfgVars, gwVars, opVars, session>>

\* The operations a request runs on a client over the loaded configuration.
RequestOps == {"test_jira_connection", "test_confluence_connection", "get_boards"}

TestOps == {"test_jira_connection", "test_confluence_connection"}

\* str.title() of the service type.
Title(service_type) == IF service_type = "jira" THEN "Jira" ELSE "Confluence"

\* MCPTestService.test_connection, lines 194-217: the tuple it returns for
\* the result of the client's connection test.
test_connection_tuple(service_type, res) ==
    IF res.success
    THEN Return("tuple", TRUE,
                <<Title(service_type), " connection successful! Connected as ">>
                    \o res.value.user_name.v
                    \o (IF JTruthy(res.value.email)
                        THEN <<" (">> \o res.value.email.v \o <<")">> ELSE <<>>),
                res.value)
    ELSE Return("tuple", FALSE, IF Truthy(res.msg) THEN res.msg ELSE <<"Connection failed">>, <<>>)

\* What the request hands back for the outcome of the client operation.
RequestOutcome(op, res) ==
    IF op \in TestOps THEN test_connection_tuple(ServiceOf(op), res)
    ELSE SyncWrap(Call(op, TRUE, JNull), res)

\* A last_tested that is stamped whatever the test returned.
last_tested_after_any(last_tested, op, res, clock) ==
    IF op \in TestOps THEN clock + 1 ELSE last_tested

\* MCPTestService.test_connection, lines 194-209: last_tested is set to
\* utcnow() when the result is a success.  The column holds 0 for NULL and
\* 1 + the clock reading otherwise.
last_tested_after(last_tested, op, res, clock) ==
    IF op \in TestOps /\ res.success THEN clock + 1 ELSE last_tested

\* The request q is over with result res of the client operation: the
\* stamp, its commit (an UPDATE of the columns that changed, none when the
\* test failed) and the response.
RequestDone(r, q, res) ==
    LET c2 == [q.c EXCEPT !.last_tested = last_tested_after(q.c.last_tested, q.op, res, now)]
    IN  /\ req' = [req EXCEPT ![r] = [q EXCEPT !.pc = "idle", !.c = c2,
                                               !.out = RequestOutcome(q.op, res),
                                               !.n = req[r].n + 1]]
        /\ rows' = [rows EXCEPT ![q.row].c = Flush(@, q.loaded, c2, {})]

MsgNoConfig == <<"No MCP configuration found. Please configure your settings first.">>

\* A request that loads the user's active configuration and runs a client
\* operation on it (GET /config/mcp/test for the connection tests), up to
\* the first await of call_tool.
RequestBegin(r, u, op) ==
    /\ req[r].pc = "idle"
    /\ req[r].n < MaxRequests
    /\ LET idx == get_user_mcp_config(rows, u)
           c == IF idx = 0 THEN NewConfig ELSE rows[idx].c
           q == [kind |-> "client", pc |-> "ensure", user |-> u, op |-> op,
                 service_type |-> ServiceOf(op), row |-> idx, loaded |-> c, c |-> c,
                 fresh |-> {}, sent |-> FALSE, headers |-> {}, out |-> NoOutcome,
                 n |-> req[r].n]
           init == ClientInit(c)
           b == Before(c, Call(op, FALSE, JNull), envKey)
       IN  IF idx = 0
           THEN /\ req' = [req EXCEPT ![r] = [q EXCEPT !.pc = "idle", !.n = @ + 1,
                                                      !.out = Failed("response", MsgNoConfig)]]
                /\ rows' = rows
                /\ loops' = loops
           ELSE IF init.exc # "none"
           THEN /\ req' = [req EXCEPT ![r] =
                     [q EXCEPT !.pc = "idle", !.n = @ + 1,
                               !.out = IF op \in TestOps
                                       THEN Return("tuple", FALSE,
                                                   <<"Connection test failed: ">> \o init.msg, <<>>)
                                       ELSE Raise(init.exc, init.msg)]]
                /\ rows' = rows
                /\ loops' = IF op \in TestOps
                            THEN LoopEnded(LoopStarted(loops, r), r, Raise(init.exc, init.msg))
                            ELSE loops
           ELSE IF ~b.go
           THEN /\ RequestDone(r, q, b.out)
                /\ loops' = LoopEnded(LoopStarted(loops, r), r, b.out)
           ELSE /\ req' = [req EXCEPT ![r] =
                              [q EXCEPT !.headers = get_auth_headers(c, ServiceOf(op), envKey)]]
                /\ rows' = rows
                /\ loops' = LoopStarted(loops, r)
    /\ UNCHANGED <<cfgVars, gwVars, callVars, session>>

\* ensure_server_running has returned ok to call_tool: the POST goes out
\* with the headers built from the loaded configuration, or the operation
\* fails.
RequestEnsured(r, ok) ==
    /\ req[r].pc = "ensure"
    /\ IF AfterEnsure(ok) = "post"
       THEN /\ req' = [req EXCEPT ![r].pc = "posted", ![r].sent = TRUE]
            /\ rows' = rows
            /\ loops' = loops
       ELSE /\ RequestDone(r, req[r],
                   After(req[r].c, Call(req[r].op, FALSE, JNull), call_tool_unreachable))
            /\ loops' = LoopEnded(loops, r,
                   After(req[r].c, Call(req[r].op, FALSE, JNull), call_tool_unreachable))
    /\ UNCHANGED <<cfgVars, gwVars, callVars, session>>

\* The POST completes.
RequestReply(r, resp) ==
    /\ req[r].pc = "posted"
    /\ RequestDone(r, req[r],
           After(req[r].c, Call(req[r].op, FALSE, JNull), call_tool_response(resp)))
    /\ loops' = LoopEnded(loops, r,
           After(req[r].c, Call(req[r].op, FALSE, JNull), call_tool_response(resp)))
    /\ UNCHANGED <<cfgVars, gwVars, callVars, session>>

\* The configuration with its is_active flag cleared.
Inactive(c) == [c EXCEPT !.is_active = FALSE]

\* Tables the requests start from: no row, one row of the owner in several
\* states, and the owner's row after the row of another user.
Tables ==
    << <<>>,
       <<Row(Owner, BothConfig(Owner))>>,
       <<Row(Owner, Inactive(BothConfig(Owner)))>>,
       <<Row(Owner, StaleJiraConfig(Owner))>>,
       <<Row(Owner, LegacyConfig(Owner))>>,
       <<Row("u2", BothConfig("u2")), Row(Owner, JiraOnlyConfig(Owner))>> >>

NoSection == <<NoText, NoText, FALSE>>

Forms ==
    << Form("jira", <<<<"jira.corp">>, TokB, FALSE>>, NoSection, FALSE),
       Form("jira", <<<<"jira.corp">>, NoText, TRUE>>, NoSection, FALSE),
       Form("jira", NoSection, NoSection, FALSE),
       Form("confluence", NoSection, <<<<"https://", "wiki.corp", "/">>, TokB, TRUE>>, FALSE),
       Form("confluence", NoSection, NoSection, FALSE),
       Form("global", NoSection, NoSection, TRUE),
       Form("global", NoSection, NoSection, FALSE),
       Form("all", <<<<"jira.corp">>, TokB, TRUE>>, NoSection, TRUE) >>

InitConfig ==
    /\ envKey = PinnedKey
    /\ generated = 0
    /\ cfg = [u \in Users |-> EmptyConfig]
    /\ written = [u \in Users |-> [f \in TokenFields |-> NoWrite]]
    /\ result = NoResult
    /\ IdleGateway
    /\ IdleOps
    /\ IdleSetters
    /\ \E i \in 1..Len(Tables) : rows = Tables[i]
    /\ req = [r \in Requests |-> NoRequest]
    /\ session = {}

NextConfig ==
    \/ \E r \in Requests : \E i \in 1..Len(Forms) : SaveBegin(r, Owner, Forms[i])
    \/ \E r \in Requests : SaveCommit(r)
    \/ \E r \in Requests : \E op \in RequestOps : RequestBegin(r, Owner, op)
    \/ \E r \in Requests : \E ok \in BOOLEAN : RequestEnsured(r, ok)
    \/ \E r \in Requests : \E i \in 1..Len(BasicResponses) : RequestReply(r, BasicResponses[i])
    \/ Tick

SpecConfig == InitConfig /\ [][NextConfig]_vars

----------------------------------------------------------------------------
(* Properties of the stored configuration                                  *)

TokenHeaderNames == {"X-Jira-Personal-Token", "X-Confluence-Personal-Token"}

\* Request r sends its POST in this step.
Posts(r) == ~req[r].sent /\ req'[r].sent

\* C14 as claimed: a POST that carries a user's token headers is sent only
\* while the configuration row it was built from is active.
C14_PostOnlyWhileActive ==
    [][\A r \in Requests :
          (Posts(r) /\ HeaderNames(req'[r].headers) \cap TokenHeaderNames # {}) =>
              rows[req[r].row].c.is_active]_vars

\* The rows of a table that belong to a user.
RowsOf(table, u) == {i \in 1..Len(table) : table[i].user_id = u}

\* A request ends in this step with a successful connection test on row i.
TestSucceeds(r, i) ==
    /\ req[r].kind = "client"
    /\ req[r].pc = "posted"
    /\ req[r].op \in TestOps
    /\ req[r].row = i
    /\ req'[r].pc = "idle"
    /\ req'[r].out.success

\* C15: the last_tested of a stored row changes only in the step in which a
\* connection test on that row ends with success; failed tests, saves
\* (which insert rows with last_tested unset) and board operations leave it
\* as it is.
C15_LastTestedOnlyOnSuccess ==
    [][/\ \A i \in 1..Len(rows) :
             rows'[i].c.last_tested # rows[i].c.last_tested =>
                 \E r \in Requests : TestSucceeds(r, i)
       /\ \A i \in (1..Len(rows')) \ (1..Len(rows)) : rows'[i].c.last_tested = 0
       /\ \A r \in Requests :
             (req'[r].c.last_tested # req'[r].loaded.last_tested) => req'[r].out.success]_vars

C15_Witness ==
    /\ \E i \in 1..Len(rows) : rows[i].c.last_tested > 0
    /\ req["r1"].op = "test_confluence_connection" /\ req["r1"].out.success
    /\ req["r2"].op = "test_jira_connection" /\ req["r2"].n > 0 /\ ~req["r2"].out.success

\* C16 as claimed: a user never has more than one configuration row.
C16_OneRowPerUser == \A u \in Users : Cardinality(RowsOf(rows, u)) <= 1

\* The url, readable token and SSL flag of a service are the same in two
\* states of a configuration.
SameService(a, b, service) ==
    IF service = "jira"
    THEN /\ a.jira_url = b.jira_url
         /\ Plain(a.jira_personal_token) = Plain(b.jira_personal_token)
         /\ a.jira_ssl_verify = b.jira_ssl_verify
    ELSE /\ a.confluence_url = b.confluence_url
         /\ Plain(a.confluence_personal_token) = Plain(b.confluence_personal_token)
         /\ a.confluence_ssl_verify = b.confluence_ssl_verify

\* Request r commits a save to a row that nobody changed since r loaded it.
CommitsUpdate(r) ==
    /\ req[r].kind = "save"
    /\ req[r].pc = "commit"
    /\ req'[r].pc = "idle"
    /\ req[r].row # 0
    /\ rows[req[r].row].c = req[r].loaded

\* C17 as claimed: a save of the Jira part leaves Confluence as it was, a
\* save of the Confluence part leaves Jira as it was, and a save of the
\* global part leaves both, whatever the stored row was.
C17_PartialSaveKeepsOthers ==
    [][\A r \in Requests :
          CommitsUpdate(r) =>
              /\ req[r].service_type \in {"jira", "global"} =>
                     SameService(rows[req[r].row].c, rows'[req[r].row].c, "confluence")
              /\ req[r].service_type \in {"confluence", "global"} =>
                     SameService(rows[req[r].row].c, rows'[req[r].row].c, "jira")]_vars

\* C18 as claimed: the Jira connection test over a configuration that has
\* only the legacy url and token succeeds.
C18_LegacyOnlyTestSucceeds ==
    \A r \in Requests :
        (/\ req[r].kind = "client"
         /\ req[r].pc = "idle"
         /\ req[r].n > 0
         /\ req[r].op = "test_jira_connection"
         /\ req[r].loaded = LegacyConfig(Owner)
         /\ Len(validate(req[r].loaded)) = 0)
            => req[r].out.success

----------------------------------------------------------------------------
(* One user calling the tool and the listings against every result shape   *)

ToolCalls ==
    << Call("call_tool", FALSE, JNull),
       Call("get_boards", FALSE, JNull),
       Call("get_boards", TRUE, JNull),
       Call("get_sprints", FALSE, JStr(<<"7">>)),
       Call("get_sprints", TRUE, JStr(<<"7">>)) >>

\* A board that has only an id, and one whose project is in 'project'.
BareBoard == JMap(<<<<"id", JNum(8)>>>>)
ProjectBoard == JMap(<<<<"id", JNum(9)>>, <<"type", JStr(<<"scrum">>)>>,
                       <<"project", JMap(<<<<"key", JStr(<<"OPS">>)>>>>)>>>>)
NullLocationBoard == JMap(<<<<"id", JNum(5)>>, <<"location", JNull>>>>)

Ok(payload) == Http(200, "200", "result", NoText, payload)

\* What the gateway can answer to a listing.
ToolResponses ==
    << Ok(JList(<<OneBoard, BareBoard>>)),
       Ok(JList(<<>>)),
       Ok(JMap(<<<<"values", JList(<<BareBoard, OneBoard>>)>>, <<"boards", JList(<<ProjectBoard>>)>>>>)),
       Ok(JMap(<<<<"content", JList(<<OneBoard>>)>>, <<"boards", JList(<<ProjectBoard, BareBoard>>)>>>>)),
       Ok(JMap(<<<<"content", JList(<<ProjectBoard>>)>>>>)),
       Ok(JMap(<<<<"sprints", JList(<<BareBoard>>)>>>>)),
       Ok(JMap(<<<<"values", JList(<<>>)>>>>)),
       Ok(JMap(<<<<"values", JStr(<<"none">>)>>, <<"boards", JList(<<OneBoard>>)>>>>)),
       Ok(Profile),
       Ok(JStr(<<"ok">>)),
       Ok(JList(<<JStr(<<"x">>)>>)),
       Ok(JList(<<NullLocationBoard>>)),
       Http(201, "201", "result", NoText, Profile),
       Http(200, "200", "error", RpcText, JNull),
       Http(200, "200", "neither", NoText, JNull),
       Http(500, "500", "result", ServerText, JNull),
       Timeout,
       Refused >>

InitTool ==
    /\ envKey = PinnedKey
    /\ generated = 0
    /\ cfg = [u \in Users |-> IF u = Owner THEN BothConfig(Owner) ELSE EmptyConfig]
    /\ written = [u \in Users |-> [f \in TokenFields |-> NoWrite]]
    /\ result = NoResult
    /\ children = <<>>
    /\ server_process = 0
    /\ gatewayUp \in BOOLEAN
    /\ now = 0
    /\ IdleOps
    /\ IdleSetters
    /\ IdleDb

NextTool ==
    \/ \E i \in 1..Len(ToolCalls) : Begin(Owner, ToolCalls[i])
    \/ Probe(Owner)
    \/ \E spawned \in BOOLEAN : Start(Owner, spawned)
    \/ Poll(Owner)
    \/ \E i \in 1..Len(ToolResponses) : Respond(Owner, ToolResponses[i])
    \/ \E i \in 1..MaxChildren : ChildServes(i)
    \/ \E i \in 1..MaxChildren : ChildExits(i)
    \/ ExternalStop
    \/ ManagerDel({Owner})
    \/ Tick

SpecTool == InitTool /\ [][NextTool]_vars

----------------------------------------------------------------------------
(* Properties of call_tool and of the listings                              *)

\* The gateway answered the owner's POST with this status class and a body
\* that has a result and no error envelope.
AnsweredResult(statuses) ==
    /\ Finished(Owner)
    /\ reply[Owner].kind = "http"
    /\ reply[Owner].status \in statuses
    /\ reply[Owner].body = "result"

\* C21 as claimed: call_tool returns the result payload of every response
\* with a 2xx status and no error envelope.
C21_Any2xxReturnsResult ==
    (call[Owner].op = "call_tool" /\ AnsweredResult(200..299)) =>
        outcome[Owner] = Return("json", TRUE, NoText, reply[Owner].payload)

\* The operation of the owner that has finished is a listing.
Listing == call[Owner].op \in {"get_boards", "get_sprints"}

\* C22 as claimed: whatever the shape of the result the gateway returned,
\* get_boards and get_sprints return a collection and do not raise.
C22_ShapeNeverRaises ==
    (Listing /\ AnsweredResult({200})) =>
        outcome[Owner].kind = "return" /\ outcome[Owner].shape = "list"

\* The list of boards the claim reads out of a gateway result: a bare
\* list, or what the first of 'values', 'boards', 'content' holds.
ClaimedBoards(p) ==
    IF p.t = "list" THEN p
    ELSE IF p.t # "map" THEN p
    ELSE IF Has(p, "values") THEN Get(p, "values", JNull)
    ELSE IF Has(p, "boards") THEN Get(p, "boards", JNull)
    ELSE IF Has(p, "content") THEN Get(p, "content", JNull)
    ELSE p

\* The field of a board element, or the default when the element lacks it.
FieldOr(b, f, default) == IF Has(b, f) THEN Get(b, f, JNull) ELSE default

\* The outcome is one Board per element of the list, in its order, with
\* the defaults for what an element lacks.
BoardsOf(out, list) ==
    /\ out.kind = "return"
    /\ Len(out.value) = Len(list.v)
    /\ \A i \in 1..Len(list.v) :
          /\ out.value[i].id = Str(FieldOr(list.v[i], "id", EmptyStr))
          /\ out.value[i].name = FieldOr(list.v[i], "name", JStr(<<"Unknown Board">>))
          /\ out.value[i].type = FieldOr(list.v[i], "type", JStr(<<"unknown">>))
          /\ ~Has(list.v[i], "location") /\ ~Has(list.v[i], "project") =>
                 out.value[i].project_key = EmptyStr /\ out.value[i].project_name = EmptyStr

\* Every element is a mapping, and so is what it holds under 'location'
\* and, where the project is read from it, under 'project'.
BoardMappings(list) == \A i \in 1..Len(list.v) : BoardOk(list.v[i])

----------------------------------------------------------------------------
(* Calls of ensure_server_running, each step of which is taken in the end: *)
(* the probe has a 5 s timeout, Popen does not wait, the loop sleeps 1 s   *)

EnsureCalls == << Call("ensure_server_running", FALSE, JNull) >>

NextEnsure ==
    \/ \E u \in Users : \E i \in 1..Len(EnsureCalls) : Begin(u, EnsureCalls[i])
    \/ \E u \in Users : Probe(u)
    \/ \E u \in Users : \E spawned \in BOOLEAN : Start(u, spawned)
    \/ \E u \in Users : Poll(u)
    \/ \E i \in 1..MaxChildren : ChildServes(i)
    \/ \E i \in 1..MaxChildren : ChildExits(i)
    \/ ExternalStop
    \/ ManagerDel(Users)

SpecEnsure ==
    /\ InitCall
    /\ [][NextEnsure]_vars
    /\ \A u \in Users : /\ WF_vars(Probe(u))
                        /\ WF_vars(\E spawned \in BOOLEAN : Start(u, spawned))
                        /\ WF_vars(Poll(u))

\* The call of u is inside ensure_server_running.
Ensuring(u) == pc[u] \in {"probe", "start", "sleep"}

\* The step in which ensure_server_running returns to u.
Returns(u, value) == Ensuring(u) /\ ~Ensuring(u)' /\ ensured'[u] = value

\* C24: every call of ensure_server_running returns; it returns true in
\* the step of a probe that finds the gateway healthy; it spawns at most
\* once, only after a failed first probe, and gives up with false after
\* the probe of round max_retries; a failed spawn gives false.
C24_EnsureTerminates ==
    /\ \A u \in Users : Ensuring(u) ~> ~Ensuring(u)
    /\ [](\A u \in Users : pc[u] = "sleep" => polls[u] < max_retries)
    /\ [][\A u \in Users :
            /\ Ensuring(u) /\ ~Ensuring(u)' => ensured'[u] \in {"true", "false"}
            /\ Returns(u, "true") <=> (pc[u] \in {"probe", "sleep"} /\ pc'[u] = "idle" /\ GatewayHealthy)
            /\ Returns(u, "false") =>
                   \/ pc[u] = "start" /\ children' = children
                   \/ pc[u] = "sleep" /\ polls[u] + 1 = max_retries /\ ~GatewayHealthy
            /\ pc'[u] = "start" /\ pc[u] # "start" => pc[u] = "probe" /\ ~GatewayHealthy
            /\ pc[u] = "start" /\ pc'[u] # "start" =>
                   \/ pc'[u] = "sleep" /\ Len(children') = Len(children) + 1
                   \/ Returns(u, "false")
            /\ pc[u] = "sleep" => pc'[u] \in {"sleep", "idle"}]_vars

C24_Witness ==
    /\ pc["u1"] = "idle" /\ done["u1"] > 0 /\ ensured["u1"] = "false"
    /\ Cardinality(Alive(children)) > 0
    /\ pc["u2"] = "sleep" /\ polls["u2"] = max_retries - 1

----------------------------------------------------------------------------
(* Properties of the client operations on a timeout and on success         *)

\* C25 as claimed: when the POST of a client operation times out, the
\* caller sees a failure of the timeout kind: MCPTimeoutError from the
\* raising operations, a timeout message from the result operations.
C25_TimeoutKind ==
    (Finished(Owner) /\ call[Owner].op \in GatewayOps /\ reply[Owner].kind = "timeout") =>
        IF call[Owner].op \in RaisingOps
        THEN outcome[Owner].kind = "raise" /\ outcome[Owner].exc = "MCPTimeoutError"
        ELSE /\ outcome[Owner].kind = "return"
             /\ ~outcome[Owner].success
             /\ Contains(outcome[Owner].msg, <<"Connection timeout: ">> \o MsgTimedOut)

\* C29 as claimed: a connection test of the client that ends with
\* success=true leaves last_tested set on the configuration.
C29_SuccessRecordsTimestamp ==
    (/\ Finished(Owner)
     /\ call[Owner].op \in {"test_jira_connection", "test_confluence_connection"}
     /\ outcome[Owner].kind = "return"
     /\ outcome[Owner].success)
        => cfg[Owner].last_tested > 0

----------------------------------------------------------------------------
(* Properties of the event loops of the *_sync methods                     *)

\* The loops a caller (a user's thread or a web request) has created and
\* not closed.
OpenLoopsOf(by) == {i \in 1..Len(loops) : loops[i].by = by /\ loops[i].state = "open"}

\* The caller is inside a *_sync method.
InSync(by) ==
    IF by \in Users THEN pc[by] # "idle" /\ call[by].sync
    ELSE req[by].kind = "client" /\ req[by].pc \in {"ensure", "posted"}

----------------------------------------------------------------------------
(* Token setters of two threads of one process, ENCRYPTION_KEY absent at   *)
(* the start                                                               *)

\* set_<field>_token in the thread of u, up to the end of
\* Fernet.generate_key(): os.getenv has found the key and the setter runs
\* to its end, or it has found none and the thread holds a fresh key that
\* is not yet in the environment.
SetterBegin(u, field, token) ==
    /\ setter[u].pc = "idle"
    /\ Truthy(token)
    /\ IF Truthy(envKey)
       THEN LET r == set_token(cfg[u], field, token, envKey, generated) IN
            /\ cfg' = [cfg EXCEPT ![u] = r.cfg]
            /\ written' = IF r.exc = "none" THEN [written EXCEPT ![u][field] = token]
                          ELSE written
            /\ UNCHANGED <<generated, setter>>
       ELSE /\ generated' = generated + 1
            /\ setter' = [setter EXCEPT ![u] =
                             [pc |-> "generated", field |-> field, token |-> token,
                              key |-> GeneratedKey(generated + 1)]]
            /\ UNCHANGED <<cfg, written>>
    /\ UNCHANGED <<envKey, result, gwVars, opVars, dbVars>>

\* os.environ['ENCRYPTION_KEY'] = key.decode(), and the rest of the setter,
\* which encrypts with the key the thread holds.
SetterStore(u) ==
    /\ setter[u].pc = "generated"
    /\ envKey' = setter[u].key
    /\ cfg' = [cfg EXCEPT ![u][setter[u].field] =
                  FernetEncrypt(setter[u].key, setter[u].token)]
    /\ written' = [written EXCEPT ![u][setter[u].field] = setter[u].token]
    /\ setter' = [setter EXCEPT ![u] = NoSetter]
    /\ UNCHANGED <<generated, result, gwVars, opVars, dbVars>>

InitKey ==
    /\ envKey = NoKey
    /\ generated = 0
    /\ cfg = [u \in Users |->
                 Config(JiraUrl(u), NoText, TRUE, ConfluenceUrl(u), NoText, TRUE, NoText, NoText)]
    /\ written = [u \in Users |-> [f \in TokenFields |-> NoWrite]]
    /\ result = NoResult
    /\ IdleGateway
    /\ IdleOps
    /\ IdleSetters
    /\ IdleDb

NextKey ==
    \/ \E u \in Users, f \in TokenFields : SetterBegin(u, f, TokenOfUser(u))
    \/ \E u \in Users : SetterStore(u)
    \/ \E u \in Users, f \in TokenFields : GetToken(u, f)

SpecKey == InitKey /\ [][NextKey]_vars

\* C27 as claimed: once the process has a key, every token a setter has
\* stored is what the getter of its field returns.
C27_StoredTokenReadable ==
    \A u \in Users, f \in TokenFields :
        (Truthy(envKey) /\ setter[u].pc = "idle" /\ written[u][f] # NoWrite) =>
            TokenOf(cfg[u], f, envKey) = written[u][f]

----------------------------------------------------------------------------
(* Two callers building requests while the clock runs                      *)

NextIds ==
    \/ \E u \in Users : \E i \in 1..Len(GatewayCalls) : Begin(u, GatewayCalls[i])
    \/ \E u \in Users : Probe(u)
    \/ \E u \in Users : \E i \in 1..Len(BasicResponses) : Respond(u, BasicResponses[i])
    \/ Tick

SpecIds == InitCall /\ [][NextIds]_vars

\* C28 as claimed: two requests the process has built never carry the same
\* id.
C28_IdsDiffer ==
    \A u \in Users, v \in Users :
        (u # v /\ post[u].sent /\ post[v].sent) => post[u].body.id # post[v].body.id

----------------------------------------------------------------------------
(* Calls of the configuration services one after another on one database   *)
(* session, as in a script or a test that keeps one application context    *)

\* What the session holds for row i: the object it has already handed out,
\* with its unflushed changes, or the row as stored.
SessionObject(i) ==
    IF \E p \in session : p.row = i THEN CHOOSE p \in session : p.row = i
    ELSE [row |-> i, loaded |-> rows[i].c, c |-> rows[i].c, fresh |-> {}]

\* db.session.commit(): every object of the session that has changes is
\* written, whoever changed it.
CommitAll(table, pending) ==
    [i \in 1..Len(table) |->
        IF \E p \in pending : p.row = i
        THEN LET p == CHOOSE x \in pending : x.row = i
             IN  Row(table[i].user_id, Flush(table[i].c, p.loaded, p.c, p.fresh))
        ELSE table[i]]

\* The session's objects with the one for row p.row replaced by p.
Holding(p) == {x \in session : x.row # p.row} \cup {p}

\* ConfigurationService.save_mcp_config(user_id, config_data)
SessionSave(u, data) ==
    LET idx == FirstRow(rows, u, FALSE)
        obj == IF idx = 0 THEN [row |-> 0, loaded |-> NewConfig, c |-> NewConfig, fresh |-> {}]
               ELSE SessionObject(idx)
        a == save_assign(obj.c, data, envKey, generated)
        errors == validate(a.cfg)
        changed == [obj EXCEPT !.c = a.cfg, !.fresh = @ \cup Reencrypted(data)]
    IN  /\ envKey' = a.env
        /\ generated' = a.gen
        /\ IF a.exc # "none"
           THEN rows' = rows /\ session' = {}
           ELSE IF Len(errors) > 0
           THEN rows' = rows /\ session' = IF idx = 0 THEN session ELSE Holding(changed)
           ELSE /\ rows' = IF idx = 0 THEN Append(CommitAll(rows, session), Row(u, a.cfg))
                           ELSE CommitAll(rows, Holding(changed))
                /\ session' = {}
        /\ result' = [op |-> "save_mcp_config", field |-> u, ret |-> NoText, exc |-> a.exc,
                      msg |-> Join(errors)]
        /\ UNCHANGED <<cfg, written, setter, gwVars, opVars, req>>

\* MCPTestService.test_connection on the user's active configuration, with
\* the gateway running and resp the answer to the POST.
SessionTest(u, op, resp) ==
    LET idx == get_user_mcp_config(CommitAll(rows, session), u) IN
    /\ idx # 0
    /\ LET obj == SessionObject(idx)
           k == Call(op, FALSE, JNull)
           b == Before(obj.c, k, envKey)
           res == IF ClientInit(obj.c).exc # "none"
                  THEN Failed("ConnectionResult", ClientInit(obj.c).msg)
                  ELSE IF ~b.go THEN b.out
                  ELSE After(obj.c, k, call_tool_response(resp))
           stamped == [obj EXCEPT !.c.last_tested = last_tested_after(@, op, res, now)]
       IN  /\ IF res.success
              THEN rows' = CommitAll(rows, Holding(stamped)) /\ session' = {}
              ELSE rows' = rows /\ session' = session
           /\ result' = [op |-> "test_connection", field |-> u,
                         ret |-> IF res.success THEN <<"success">> ELSE NoText,
                         exc |-> "none", msg |-> res.msg]
    /\ UNCHANGED <<envKey, generated, cfg, written, setter, gwVars, opVars, req>>

\* The application context ends: db.session.remove().
SessionRemove ==
    /\ session # {}
    /\ session' = {}
    /\ UNCHANGED <<cfgVars, gwVars, opVars, rows, req>>

\* The config_data dictionaries of the calls.
SessionDatas ==
    << config_data_from(Form("all", <<<<"https://", "jira.corp">>, TokB, TRUE>>, NoSection, TRUE),
                        FALSE, NewConfig, PinnedKey),
       config_data_from(Form("all", <<<<"https://", "jira.rejected">>, NoText, FALSE>>, NoSection, TRUE),
                        FALSE, NewConfig, PinnedKey),
       config_data_from(Form("all", NoSection, NoSection, FALSE), FALSE, NewConfig, PinnedKey) >>

InitSession ==
    /\ envKey = PinnedKey
    /\ generated = 0
    /\ cfg = [u \in Users |-> EmptyConfig]
    /\ written = [u \in Users |-> [f \in TokenFields |-> NoWrite]]
    /\ result = NoResult
    /\ children = <<>>
    /\ server_process = 0
    /\ gatewayUp = TRUE
    /\ now = 0
    /\ IdleOps
    /\ IdleSetters
    /\ rows \in {<<Row(Owner, BothConfig(Owner))>>,
                 <<Row("u2", JiraOnlyConfig("u2")), Row(Owner, BothConfig(Owner))>>}
    /\ req = [r \in Requests |-> NoRequest]
    /\ session = {}

NextSession ==
    \/ \E u \in Users : \E i \in 1..Len(SessionDatas) : SessionSave(u, SessionDatas[i])
    \/ \E u \in Users : \E op \in TestOps : \E i \in 1..Len(BasicResponses) :
          SessionTest(u, op, BasicResponses[i])
    \/ SessionRemove
    \/ Tick

SpecSession == InitSession /\ [][NextSession]_vars

\* The step is a save_mcp_config of user u that returned success.
SavedBy(u) ==
    /\ result'.op = "save_mcp_config" /\ result'.field = u
    /\ result'.exc = "none" /\ result'.msg = NoText

\* C30 as claimed: a row whose object holds the values of a rejected save
\* changes only by a later successful save of its own user, or in its
\* last_tested by a successful connection test; no other commit on the
\* session writes the rejected values.
C30_RejectedNeverPersisted ==
    [][\A p \in session :
          \/ rows'[p.row].c = rows[p.row].c
          \/ SavedBy(rows[p.row].user_id)
          \/ \E t \in 1..(MaxClock + 2) :
                rows'[p.row].c = [rows[p.row].c EXCEPT !.last_tested = t]]_vars

====
